---- MODULE Spec2Model ----
(***************************************************************************)
(* Model of the atom-wiki document assembly pipeline                       *)
(* (src/atomwiki/cli.py, class MarkdownToHTMLConverter and main).          *)
(*                                                                         *)
(* Python strings are TLA+ strings; a character is a string of length 1.   *)
(* A pathlib.Path is the sequence of its parts; str(path) joins the parts  *)
(* with "/".  Files below the input folder are named by their path         *)
(* relative to the input folder.                                           *)
(***************************************************************************)
EXTENDS Integers, Sequences, FiniteSets, TLC

(***************************************************************************)
(* Bounds of the model.                                                    *)
(***************************************************************************)
MaxFiles == 3        \* largest number of files in the input folder
MaxLines == 4        \* largest number of lines of a text given to parse_frontmatter
MaxOrdinal == 12     \* largest section index given to prefix_heading_ids
MaxIdLen == 2        \* longest local heading id given to prefix_heading_ids

(***************************************************************************)
(* Python str primitives.                                                  *)
(***************************************************************************)
\* The characters of the model in code point order (ord): str comparison
\* in Python compares code points.
CodepointOrder == "\t\n !\"#(),-./0123456789:;<=>ABCDEFGHIJKLMNOPQRSTUVWXYZ[]_abcdefghijklmnopqrstuvwxyz"

UpperCase == "ABCDEFGHIJKLMNOPQRSTUVWXYZ"
LowerCase == "abcdefghijklmnopqrstuvwxyz"
Whitespace == {" ", "\n", "\t"}

\* s[a-1:b] with Python's clamping of the bounds (positions are 1-based)
Slice(s, a, b) ==
    LET lo == IF a < 1 THEN 1 ELSE a
        hi == IF b > Len(s) THEN Len(s) ELSE b
    IN  IF lo > hi THEN "" ELSE SubSeq(s, lo, hi)

\* the character at position k, "" beyond the end
CharAt(s, k) == Slice(s, k, k)

Ord(c) == CHOOSE k \in 1..Len(CodepointOrder) : CharAt(CodepointOrder, k) = c

\* a < b for Python strings
RECURSIVE StrLess(_, _)
StrLess(a, b) ==
    IF Len(b) = 0 THEN FALSE
    ELSE IF Len(a) = 0 THEN TRUE
    ELSE IF Head(a) = Head(b) THEN StrLess(Tail(a), Tail(b))
    ELSE Ord(Head(a)) < Ord(Head(b))

\* s.startswith(p)
startswith(s, p) == Len(s) >= Len(p) /\ SubSeq(s, 1, Len(p)) = p

\* s.endswith(p)
endswith(s, p) == Len(s) >= Len(p) /\ SubSeq(s, Len(s) - Len(p) + 1, Len(s)) = p

LowerChar(c) ==
    IF \E k \in 1..Len(UpperCase) : CharAt(UpperCase, k) = c
    THEN LET k == CHOOSE j \in 1..Len(UpperCase) : CharAt(UpperCase, j) = c
         IN  CharAt(LowerCase, k)
    ELSE c

\* s.lower()
RECURSIVE lower(_)
lower(s) == IF Len(s) = 0 THEN "" ELSE LowerChar(Head(s)) \o lower(Tail(s))

\* s.lstrip() / s.rstrip() / s.strip()
RECURSIVE lstrip(_)
lstrip(s) == IF Len(s) > 0 /\ Head(s) \in Whitespace THEN lstrip(Tail(s)) ELSE s

RECURSIVE rstrip(_)
rstrip(s) ==
    IF Len(s) > 0 /\ CharAt(s, Len(s)) \in Whitespace
    THEN rstrip(SubSeq(s, 1, Len(s) - 1))
    ELSE s

strip(s) == rstrip(lstrip(s))

\* s.split(sep) for a one-character sep: always at least one element
RECURSIVE split(_, _)
split(s, sep) ==
    IF \E k \in 1..Len(s) : CharAt(s, k) = sep
    THEN LET k == CHOOSE j \in 1..Len(s) :
                     /\ CharAt(s, j) = sep
                     /\ \A h \in 1..(j - 1) : CharAt(s, h) # sep
         IN  <<SubSeq(s, 1, k - 1)>> \o split(SubSeq(s, k + 1, Len(s)), sep)
    ELSE <<s>>

\* sep.join(parts)
RECURSIVE join(_, _)
join(sep, parts) ==
    IF Len(parts) = 0 THEN ""
    ELSE IF Len(parts) = 1 THEN parts[1]
    ELSE parts[1] \o sep \o join(sep, Tail(parts))

\* sub in s, for strings
contains(s, sub) ==
    \E k \in 1..(Len(s) - Len(sub) + 1) : SubSeq(s, k, k + Len(sub) - 1) = sub

(***************************************************************************)
(* pathlib primitives (PurePosixPath): a path is [abs, parts]; "." and     *)
(* empty parts are dropped when a path is built, ".." parts are kept.      *)
(***************************************************************************)
PathParts(s) == SelectSeq(split(s, "/"), LAMBDA p : p # "" /\ p # ".")

\* Path(s)
Path(s) == [abs |-> startswith(s, "/"), parts |-> PathParts(s)]

\* str(path)
PathStr(p) ==
    IF p.abs THEN "/" \o join("/", p.parts)
    ELSE IF Len(p.parts) = 0 THEN "."
    ELSE join("/", p.parts)

\* path / s: an absolute right operand replaces the left one
PathJoin(p, s) ==
    IF startswith(s, "/") THEN Path(s)
    ELSE [abs |-> p.abs, parts |-> p.parts \o PathParts(s)]

\* path.name
PathName(p) == IF Len(p.parts) = 0 THEN "" ELSE p.parts[Len(p.parts)]

\* path.parent
PathParent(p) ==
    IF Len(p.parts) = 0 THEN p
    ELSE [abs |-> p.abs, parts |-> SubSeq(p.parts, 1, Len(p.parts) - 1)]

\* path.stem: the name without its last suffix
PathStem(p) ==
    LET name == PathName(p)
        dots == { k \in 2..Len(name) : CharAt(name, k) = "." }
    IN  IF dots = {} \/ endswith(name, ".") THEN name
        ELSE SubSeq(name, 1, (CHOOSE k \in dots : \A j \in dots : j <= k) - 1)

\* the ".." parts of an absolute path folded away (no symbolic links)
RECURSIVE CollapseDots(_, _)
CollapseDots(parts, acc) ==
    IF Len(parts) = 0 THEN acc
    ELSE IF Head(parts) = ".."
         THEN CollapseDots(Tail(parts),
                           IF Len(acc) = 0 THEN acc ELSE SubSeq(acc, 1, Len(acc) - 1))
         ELSE CollapseDots(Tail(parts), Append(acc, Head(parts)))

\* path.resolve() in working directory wd
PathResolve(p, wd) ==
    [abs |-> TRUE,
     parts |-> CollapseDots(IF p.abs THEN p.parts ELSE Path(wd).parts \o p.parts, <<>>)]

\* path.relative_to(base) raises ValueError unless base is a prefix of path
IsRelativeTo(p, base) ==
    /\ p.abs = base.abs
    /\ Len(p.parts) >= Len(base.parts)
    /\ SubSeq(p.parts, 1, Len(base.parts)) = base.parts

PathRelativeTo(p, base) ==
    [abs |-> FALSE, parts |-> SubSeq(p.parts, Len(base.parts) + 1, Len(p.parts))]

(***************************************************************************)
(* The files an input folder can hold, by path relative to the folder.     *)
(***************************************************************************)
FileUniverse ==
    { "index.md", "sub/Index.md", "b.md", "a/b.md", "x/a.md", "notes.txt" }

\* how the program is started: (working directory, input_folder argument)
Launches == { <<"/w/docs", ".">>, <<"/w", "docs">>, <<"/w/docs/x", "/w/docs">> }

VARIABLES
    pc,              \* position of main: "start", "generate", "write", "except",
                     \* "converted", "done"; "call" in the specifications of one function
    cwd,             \* working directory of the process
    input_folder,    \* self.input_folder, as given on the command line
    root_exists,     \* self.input_folder.exists()
    disk,            \* the files below the input folder
    markdown_files,  \* self.markdown_files
    i,               \* generate_html_content: the index of the next file of its loop
    sections,        \* generate_html_content: sections
    tag_file_map,    \* generate_html_content: tag_file_map
    navigation,      \* generate_html_content: the items of navigation, in order
    warnings,        \* the warnings printed so far
    output_written,  \* the number of output files written
    raised,          \* the exception propagating out of convert, or "none"
    exit_code,       \* value returned by main, -1 while it runs
    arg,             \* the argument of the function under study
    ret,             \* its result
    showSection,     \* embedded script: the function the name showSection is bound to
    currentSection,  \* embedded script: currentSection
    navigationHistory,   \* embedded script: navigationHistory
    historyIndex,        \* embedded script: historyIndex
    isBrowserNavigation, \* embedded script: isBrowserNavigation
    sessionHistory,  \* browser: the state objects of the session history entries
    sessionIndex,    \* browser: the position of the current entry, from 0
    traversals       \* browser: the popstate events waiting to be dispatched

\* the state of the embedded script of the generated page and of the browser
\* that runs it
script == <<showSection, currentSection, navigationHistory, historyIndex,
            isBrowserNavigation, sessionHistory, sessionIndex, traversals>>

vars == <<pc, cwd, input_folder, root_exists, disk, markdown_files, i, sections,
          tag_file_map, navigation, warnings, output_written, raised, exit_code, arg, ret,
          script>>

\* lines 1195-1202: the script as the page starts to load, in a browser whose
\* session history holds the entry of the page; the state object { section: n }
\* of an entry is <<n>>, the null state of the entry of the page <<>>
ScriptLoaded ==
    /\ showSection = "showSection"
    /\ currentSection = 0
    /\ navigationHistory = <<[type |-> "section", sectionIndex |-> 0]>>
    /\ historyIndex = 0
    /\ isBrowserNavigation = FALSE
    /\ sessionHistory = << <<>> >>
    /\ sessionIndex = 0
    /\ traversals = <<>>

\* arg and ret outside the specifications of one function
NoCall == [fn |-> "none"]

(***************************************************************************)
(* find_markdown_files                                                     *)
(***************************************************************************)
\* str(file) of a discovered file: rglob yields input_folder / relative path
FullStr(rel) == PathStr(PathJoin(Path(input_folder), rel))

\* self.input_folder.rglob("*.md"): the set of matches
rglob_md == { f \in disk : endswith(PathName(Path(f)), ".md") }

\* every order in which rglob can yield a set of files
Orders(S) ==
    { o \in [1..Cardinality(S) -> S] : \A a, b \in 1..Cardinality(S) : a # b => o[a] # o[b] }

IsEntryName(file) == lower(PathName(Path(file))) \in {"index.md", "index.markdown"}

\* the loop of lines 80-84: index_file is overwritten by every entry-named file,
\* so the last one discovered wins and the earlier ones are kept nowhere
RECURSIVE PartitionLoop(_, _)
PartitionLoop(files, acc) ==
    IF Len(files) = 0 THEN acc
    ELSE LET file == Head(files) IN
         IF IsEntryName(file)
         THEN PartitionLoop(Tail(files), [acc EXCEPT !.index_file = <<file>>])
         ELSE PartitionLoop(Tail(files),
                            [acc EXCEPT !.other_files = Append(@, file)])

\* list.sort(key=str): stable insertion by the key
RECURSIVE InsertByStr(_, _)
InsertByStr(sorted, file) ==
    IF Len(sorted) = 0 THEN <<file>>
    ELSE IF StrLess(FullStr(file), FullStr(Head(sorted)))
         THEN <<file>> \o sorted
         ELSE <<Head(sorted)>> \o InsertByStr(Tail(sorted), file)

RECURSIVE SortByStr(_)
SortByStr(files) ==
    IF Len(files) = 0 THEN <<>>
    ELSE InsertByStr(SortByStr(SubSeq(files, 1, Len(files) - 1)), files[Len(files)])

\* find_markdown_files without the check of lines 90-92: with no entry file
\* the sorted files are taken as they are
FindResult_DefaultEntry(exists, all_md_files) ==
    IF ~exists THEN [raised |-> "FileNotFoundError", files |-> <<>>]
    ELSE IF Len(all_md_files) = 0 THEN [raised |-> "FileNotFoundError", files |-> <<>>]
    ELSE LET part == PartitionLoop(all_md_files, [index_file |-> <<>>, other_files |-> <<>>])
         IN  [raised |-> "none", files |-> part.index_file \o SortByStr(part.other_files)]

\* find_markdown_files without the check of lines 73-74
FindResult_NoEmptyCheck(exists, all_md_files) ==
    IF ~exists THEN [raised |-> "FileNotFoundError", files |-> <<>>]
    ELSE LET part == PartitionLoop(all_md_files, [index_file |-> <<>>, other_files |-> <<>>])
             other_files == SortByStr(part.other_files)
         IN  IF Len(part.index_file) = 0
             THEN [raised |-> "ValueError", files |-> <<>>]
             ELSE [raised |-> "none", files |-> part.index_file \o other_files]

\* the result of find_markdown_files for one discovery order:
\* the exception raised ("none" if it returns) and the sequence assigned
FindResult(exists, all_md_files) ==
    IF ~exists THEN [raised |-> "FileNotFoundError", files |-> <<>>]
    ELSE IF Len(all_md_files) = 0 THEN [raised |-> "FileNotFoundError", files |-> <<>>]
    ELSE LET part == PartitionLoop(all_md_files, [index_file |-> <<>>, other_files |-> <<>>])
             other_files == SortByStr(part.other_files)
         IN  IF Len(part.index_file) = 0
             THEN [raised |-> "ValueError", files |-> <<>>]
             ELSE [raised |-> "none", files |-> part.index_file \o other_files]

(***************************************************************************)
(* Python values produced by yaml.safe_load, in one record shape:          *)
(* kind is "None", "int", "str", "list" or "dict"; a list holds its        *)
(* elements in items, a dict its (key, value) pairs in insertion order.    *)
(***************************************************************************)
PyNone == [kind |-> "None", n |-> 0, s |-> "", items |-> <<>>]
PyInt(n) == [kind |-> "int", n |-> n, s |-> "", items |-> <<>>]
PyStr(s) == [kind |-> "str", n |-> 0, s |-> s, items |-> <<>>]
PyList(items) == [kind |-> "list", n |-> 0, s |-> "", items |-> items]
PyDict(items) == [kind |-> "dict", n |-> 0, s |-> "", items |-> items]
EmptyDict == PyDict(<<>>)

\* bool(v)
Truthy(v) ==
    CASE v.kind = "None" -> FALSE
      [] v.kind = "int" -> v.n # 0
      [] v.kind = "str" -> v.s # ""
      [] OTHER -> Len(v.items) > 0

\* key in d, for a dict d
HasKey(d, key) == \E k \in 1..Len(d.items) : d.items[k][1] = key

\* d[key], for a dict d that has the key
GetKey(d, key) == d.items[CHOOSE k \in 1..Len(d.items) : d.items[k][1] = key][2]

\* d[key] = value: a present key keeps its position
SetKey(d, key, value) ==
    IF HasKey(d, key)
    THEN PyDict([k \in 1..Len(d.items) |->
                    IF d.items[k][1] = key THEN <<key, value>> ELSE d.items[k]])
    ELSE PyDict(Append(d.items, <<key, value>>))

(***************************************************************************)
(* yaml.safe_load on the blocks of the model: every line is blank, a       *)
(* plain scalar, or "key: value" at column 0 whose value is a plain        *)
(* scalar or a flow sequence on that line.  The result is a Python value,  *)
(* or YAMLError.                                                           *)
(***************************************************************************)
YAMLError == [kind |-> "YAMLError", n |-> 0, s |-> "", items |-> <<>>]

Digits == "0123456789"
IsDigit(c) == \E k \in 1..Len(Digits) : CharAt(Digits, k) = c
DigitValue(c) == (CHOOSE k \in 1..Len(Digits) : CharAt(Digits, k) = c) - 1

RECURSIVE IntOf(_)
IntOf(t) == IF Len(t) = 0 THEN 0
            ELSE 10 * IntOf(SubSeq(t, 1, Len(t) - 1)) + DigitValue(CharAt(t, Len(t)))

yaml_scalar(t) ==
    IF Len(t) > 0 /\ \A k \in 1..Len(t) : IsDigit(CharAt(t, k))
    THEN PyInt(IntOf(t))
    ELSE PyStr(t)

\* a flow sequence "[...]" written on one line, at most one level of nesting
RECURSIVE yaml_flow(_)
yaml_flow(t) ==
    IF ~endswith(t, "]") \/ Len(t) < 2 THEN YAMLError
    ELSE LET inner == strip(SubSeq(t, 2, Len(t) - 1)) IN
         IF inner = "" THEN PyList(<<>>)
         ELSE IF startswith(inner, "[")
         THEN LET nested == yaml_flow(inner) IN
              IF nested.kind = "YAMLError" THEN YAMLError ELSE PyList(<<nested>>)
         ELSE LET elems == split(inner, ",") IN
              PyList([k \in 1..Len(elems) |-> yaml_scalar(strip(elems[k]))])

yaml_value(t) == IF startswith(t, "[") THEN yaml_flow(t) ELSE yaml_scalar(t)

IsMappingLine(line) == contains(line, ": ") \/ endswith(line, ":")

MappingKey(line) ==
    LET k == CHOOSE j \in 1..Len(line) :
                 /\ CharAt(line, j) = ":"
                 /\ (j = Len(line) \/ CharAt(line, j + 1) = " ")
                 /\ \A h \in 1..(j - 1) :
                        ~(CharAt(line, h) = ":" /\ CharAt(line, h + 1) = " ")
    IN  SubSeq(line, 1, k - 1)

MappingValue(line) ==
    LET t == strip(SubSeq(line, Len(MappingKey(line)) + 2, Len(line))) IN
    IF t = "" THEN PyNone ELSE yaml_value(t)

\* a block mapping: one "key: value" per line, a repeated key keeps the last value
RECURSIVE yaml_mapping(_, _)
yaml_mapping(lines, acc) ==
    IF Len(lines) = 0 THEN acc
    ELSE LET v == MappingValue(Head(lines)) IN
         IF v.kind = "YAMLError" THEN YAMLError
         ELSE yaml_mapping(Tail(lines), SetKey(acc, MappingKey(Head(lines)), v))

yaml_safe_load(block) ==
    LET lines == SelectSeq(split(block, "\n"), LAMBDA l : strip(l) # "") IN
    IF Len(lines) = 0 THEN PyNone
    ELSE IF \A k \in 1..Len(lines) : IsMappingLine(lines[k])
    THEN yaml_mapping(lines, EmptyDict)
    ELSE IF \E k \in 1..Len(lines) : IsMappingLine(lines[k])
    THEN YAMLError      \* a plain scalar next to a mapping entry
    ELSE IF Len(lines) = 1 THEN yaml_scalar(strip(lines[1]))
    ELSE PyStr(join(" ", [k \in 1..Len(lines) |-> strip(lines[k])]))

(***************************************************************************)
(* parse_frontmatter                                                       *)
(***************************************************************************)
\* the first i in range(1, len(lines)) with lines[i].strip() == '---', as a
\* 0-based index; 0 stands for None (0 is never a result of the loop)
end_index_of(lines) ==
    IF \E k \in 2..Len(lines) : strip(lines[k]) = "---"
    THEN (CHOOSE k \in 2..Len(lines) :
              /\ strip(lines[k]) = "---"
              /\ \A h \in 2..(k - 1) : strip(lines[h]) # "---") - 1
    ELSE 0

\* the value returned (frontmatter, body) and whether the warning was printed
parse_frontmatter(content) ==
    LET unparsed == [frontmatter |-> EmptyDict, body |-> content, warning |-> FALSE]
        lines == split(strip(content), "\n")
        end_index == end_index_of(lines)
    IN  IF ~startswith(strip(content), "---") THEN unparsed
        ELSE IF ~(Len(lines) > 1) THEN unparsed
        ELSE IF end_index = 0 THEN unparsed
        ELSE LET fm_section == join("\n", SubSeq(lines, 2, end_index))
                 markdown_content == strip(join("\n", SubSeq(lines, end_index + 2, Len(lines))))
                 loaded == yaml_safe_load(fm_section)
             IN  IF loaded.kind = "YAMLError"
                 THEN [frontmatter |-> EmptyDict, body |-> markdown_content, warning |-> TRUE]
                 ELSE [frontmatter |-> IF Truthy(loaded) THEN loaded ELSE EmptyDict,
                       body |-> markdown_content, warning |-> FALSE]

(***************************************************************************)
(* find_file_index_by_path                                                 *)
(* Ordinals are 0-based as in the code: ordinal i is markdown_files[i+1].  *)
(* NoneIndex stands for the None it returns when nothing matches.          *)
(***************************************************************************)
NoneIndex == -1

\* s.lstrip(chars)
RECURSIVE lstrip_chars(_, _)
lstrip_chars(s, chars) ==
    IF Len(s) > 0 /\ Head(s) \in chars THEN lstrip_chars(Tail(s), chars) ELSE s

\* the ordinal returned by a loop that returns at its first match, given the
\* positions of markdown_files that match
FirstIndex(positions) ==
    IF positions = {} THEN NoneIndex
    ELSE (CHOOSE k \in positions : \A j \in positions : k <= j) - 1

\* lines 381-389: target_path
target_path_of(link_path, current_dir) ==
    IF startswith(link_path, "../")
    THEN PathResolve(PathJoin(current_dir, link_path), cwd)
    ELSE IF startswith(link_path, "./")
    THEN PathResolve(PathJoin(current_dir, lstrip_chars(link_path, {".", "/"})), cwd)
    ELSE PathResolve(PathJoin(current_dir, link_path), cwd)

\* lines 392-396: target_rel, given target_path and self.input_folder.resolve()
target_rel_within(link_path, current_dir, target_path, root) ==
    IF IsRelativeTo(target_path, root)
    THEN PathRelativeTo(target_path, root)
    ELSE PathJoin(current_dir, link_path)

\* lines 373-396: the path the link is compared by, from the directory of
\* the file that holds the link
target_rel_from(link_path, current_dir) ==
    target_rel_within(link_path, current_dir, target_path_of(link_path, current_dir),
                      PathResolve(Path(input_folder), cwd))

target_rel_of(link_path, current_file_index) ==
    target_rel_from(link_path, PathParent(Path(markdown_files[current_file_index + 1])))

\* lines 398-411: the match by path if there is one, else the match by name
FirstOf(by_path, by_name) == IF by_path # NoneIndex THEN by_path ELSE by_name

\* lines 399-403, given str(target_rel)
IndexByPath(target) ==
    FirstIndex({ k \in 1..Len(markdown_files) : PathStr(Path(markdown_files[k])) = target })

\* lines 406-409 returning the last document of that name instead of the first
IndexByName_Last(target_name) ==
    LET named == { k \in 1..Len(markdown_files) :
                      PathName(Path(markdown_files[k])) = target_name }
    IN  IF named = {} THEN NoneIndex
        ELSE (CHOOSE k \in named : \A j \in named : j <= k) - 1

\* lines 406-409, given target_name
IndexByName(target_name) ==
    FirstIndex({ k \in 1..Len(markdown_files) : PathName(Path(markdown_files[k])) = target_name })

find_file_index_by_path(link_path, current_file_index) ==
    FirstOf(IndexByPath(PathStr(target_rel_of(link_path, current_file_index))),
            IndexByName(PathName(Path(link_path))))

(***************************************************************************)
(* Regular expression matching on rendered HTML.                           *)
(***************************************************************************)
Quote == "\""

\* str(n) of a natural number
RECURSIVE IntToStr(_)
IntToStr(n) ==
    IF n < 10 THEN CharAt(Digits, n + 1)
    ELSE IntToStr(n \div 10) \o CharAt(Digits, (n % 10) + 1)

\* s[k:], with k 1-based
From(s, k) == Slice(s, k, Len(s))

\* the least element of a non-empty set of integers
Min(S) == CHOOSE k \in S : \A j \in S : k <= j

\* the number of characters from position k on that are not stop
RunUntil(s, k, stop) ==
    LET stops == { j \in k..Len(s) : CharAt(s, j) = stop } IN
    IF k > Len(s) THEN 0
    ELSE IF stops = {} THEN Len(s) - k + 1
    ELSE Min(stops) - k

\* the number of characters from position k on that are in chars
RunOf(s, k, chars) ==
    LET stops == { j \in k..Len(s) : CharAt(s, j) \notin chars } IN
    IF k > Len(s) THEN 0
    ELSE IF stops = {} THEN Len(s) - k + 1
    ELSE Min(stops) - k

\* the leftmost of the positions at which a pattern matches, 0 if there is
\* none (re.sub and re.findall scan from left to right)
FirstMatch(hits) == IF hits = {} THEN 0 ELSE Min(hits)

(***************************************************************************)
(* process_internal_links                                                  *)
(***************************************************************************)
\* link_pattern = <a href="([^"]*\.md)">([^<]*)</a> matched at the start of s.
\* Both groups are runs that end at the first character they exclude, so the
\* pattern matches in one way at most.
LinkOpen == "<a href=" \o Quote

\* the match, given the lengths of the two groups
LinkMatchGroups(s, hrefLen, textLen) ==
    [ok |-> /\ startswith(s, LinkOpen)
            /\ endswith(Slice(s, Len(LinkOpen) + 1, Len(LinkOpen) + hrefLen), ".md")
            /\ startswith(From(s, Len(LinkOpen) + hrefLen + 1), Quote \o ">")
            /\ startswith(From(s, Len(LinkOpen) + hrefLen + 3 + textLen), "</a>"),
     link_path |-> Slice(s, Len(LinkOpen) + 1, Len(LinkOpen) + hrefLen),
     link_text |-> Slice(s, Len(LinkOpen) + hrefLen + 3, Len(LinkOpen) + hrefLen + 2 + textLen),
     len |-> Len(LinkOpen) + hrefLen + 6 + textLen]

LinkMatchHref(s, hrefLen) ==
    LinkMatchGroups(s, hrefLen, RunUntil(s, Len(LinkOpen) + hrefLen + 3, "<"))

LinkMatch(s) == LinkMatchHref(s, RunUntil(s, Len(LinkOpen) + 1, Quote))

\* lines 364-366 returning the link text alone instead of match.group(0)
link_replacement_TextOnly(m, whole, current_file_index, target_index) ==
    IF target_index # NoneIndex
    THEN [text |-> "<a href=" \o Quote \o "#" \o Quote \o " onclick=" \o Quote
                   \o "navigateToSection(" \o IntToStr(target_index) \o "); return false;"
                   \o Quote \o " class=" \o Quote \o "internal-link" \o Quote \o ">"
                   \o m.link_text \o "</a>",
          warnings |-> <<>>]
    ELSE [text |-> m.link_text,
          warnings |-> <<[kind |-> "link", link |-> m.link_path, index |-> current_file_index]>>]

\* lines 360-366: the replacement text and the warning printed, if any
link_replacement(m, whole, current_file_index, target_index) ==
    IF target_index # NoneIndex
    THEN [text |-> "<a href=" \o Quote \o "#" \o Quote \o " onclick=" \o Quote
                   \o "navigateToSection(" \o IntToStr(target_index) \o "); return false;"
                   \o Quote \o " class=" \o Quote \o "internal-link" \o Quote \o ">"
                   \o m.link_text \o "</a>",
          warnings |-> <<>>]
    ELSE [text |-> whole,
          warnings |-> <<[kind |-> "link", link |-> m.link_path, index |-> current_file_index]>>]

\* replace_link
replace_link(m, whole, current_file_index) ==
    link_replacement(m, whole, current_file_index,
                     find_file_index_by_path(m.link_path, current_file_index))

\* the positions of s at which the link pattern matches
LinkPositions(s) == { k \in 1..Len(s) : LinkMatch(From(s, k)).ok }

\* what re.sub makes of the text before a match, the replacement and the rest
Substituted(before, r, rest) ==
    [html |-> before \o r.text \o rest.html, warnings |-> r.warnings \o rest.warnings]

\* re.sub(link_pattern, replace_link, html_content): the new html and the warnings
RECURSIVE process_internal_links(_, _)
RECURSIVE links_from(_, _, _)
RECURSIVE links_at(_, _, _, _)

\* the match m at position at is replaced and the scan goes on behind it
links_at(html_content, current_file_index, at, m) ==
    Substituted(Slice(html_content, 1, at - 1),
                replace_link(m, Slice(html_content, at, at + m.len - 1), current_file_index),
                process_internal_links(From(html_content, at + m.len), current_file_index))

\* at is the leftmost match, 0 if there is none
links_from(html_content, current_file_index, at) ==
    IF at = 0 THEN [html |-> html_content, warnings |-> <<>>]
    ELSE links_at(html_content, current_file_index, at, LinkMatch(From(html_content, at)))

process_internal_links(html_content, current_file_index) ==
    links_from(html_content, current_file_index, FirstMatch(LinkPositions(html_content)))

(***************************************************************************)
(* prefix_heading_ids                                                      *)
(***************************************************************************)
\* heading_pattern = <(h[1-6])\s+id="([^"]+)" matched at the start of s
IdAttr == "id=" \o Quote

\* the match, given the length of the \s+ run and of the id
HeadingIdGroups(s, spaces, idLen) ==
    [ok |-> /\ startswith(s, "<h")
            /\ CharAt(s, 3) \in {"1", "2", "3", "4", "5", "6"}
            /\ spaces >= 1
            /\ startswith(From(s, 4 + spaces), IdAttr)
            /\ idLen >= 1
            /\ 4 + spaces + Len(IdAttr) + idLen <= Len(s),
     tag |-> Slice(s, 2, 3),
     old_id |-> Slice(s, 4 + spaces + Len(IdAttr), 3 + spaces + Len(IdAttr) + idLen),
     len |-> 4 + spaces + Len(IdAttr) + idLen]

HeadingIdSpaces(s, spaces) ==
    HeadingIdGroups(s, spaces, RunUntil(s, 4 + spaces + Len(IdAttr), Quote))

HeadingIdMatch(s) == HeadingIdSpaces(s, RunOf(s, 4, Whitespace))

\* the id without the separator between the ordinal and the local id
new_id_NoSeparator(section_index, old_id) == "section-" \o IntToStr(section_index) \o old_id

\* new_id = f"section-{section_index}-{old_id}"
new_id(section_index, old_id) == "section-" \o IntToStr(section_index) \o "-" \o old_id

\* replace_id
replace_id(m, section_index) ==
    "<" \o m.tag \o " id=" \o Quote \o new_id(section_index, m.old_id) \o Quote

\* the positions of s at which the heading pattern matches
HeadingIdPositions(s) == { k \in 1..Len(s) : HeadingIdMatch(From(s, k)).ok }

RECURSIVE prefix_heading_ids(_, _)
RECURSIVE prefix_from(_, _, _)
RECURSIVE prefix_at(_, _, _, _)

\* the match m at position at is replaced and the scan goes on behind it
prefix_at(html_content, section_index, at, m) ==
    Slice(html_content, 1, at - 1) \o replace_id(m, section_index)
        \o prefix_heading_ids(From(html_content, at + m.len), section_index)

\* at is the leftmost match, 0 if there is none
prefix_from(html_content, section_index, at) ==
    IF at = 0 THEN html_content
    ELSE prefix_at(html_content, section_index, at, HeadingIdMatch(From(html_content, at)))

prefix_heading_ids(html_content, section_index) ==
    prefix_from(html_content, section_index, FirstMatch(HeadingIdPositions(html_content)))

(***************************************************************************)
(* wrap_tables                                                             *)
(***************************************************************************)
\* s.replace(old, new), which is what re.sub does for a pattern without
\* special characters
RECURSIVE replace(_, _, _)
RECURSIVE replace_from(_, _, _, _)

\* at is the leftmost occurrence of old, 0 if there is none
replace_from(s, old, new, at) ==
    IF at = 0 THEN s
    ELSE Slice(s, 1, at - 1) \o new \o replace(From(s, at + Len(old)), old, new)

replace(s, old, new) ==
    replace_from(s, old, new, FirstMatch({ k \in 1..Len(s) : startswith(From(s, k), old) }))

wrap_tables(html_content) ==
    replace(replace(html_content, "<table>",
                    "<div class=" \o Quote \o "table-wrapper" \o Quote \o "><table>"),
            "</table>", "</table></div>")

(***************************************************************************)
(* convert_markdown_to_html, from the output of md.convert on              *)
(***************************************************************************)
\* lines 205-211, given the result of process_internal_links
after_links(linked, current_file_index) ==
    [html |-> wrap_tables(prefix_heading_ids(linked.html, current_file_index)),
     warnings |-> linked.warnings]

convert_markdown_to_html(rendered, current_file_index) ==
    after_links(process_internal_links(rendered, current_file_index), current_file_index)

(***************************************************************************)
(* normalize_code_fence_indentation                                        *)
(***************************************************************************)
\* ' ' * n
RECURSIVE Spaces(_)
Spaces(n) == IF n <= 0 THEN "" ELSE " " \o Spaces(n - 1)

\* the three backquotes of a code fence; a string of this language cannot
\* hold a backquote, so ^ stands for it
FenceMark == "^^^"

\* re.match of the fence pattern: spaces at the start of the line, then the
\* three backquotes
IsFence(line) == startswith(From(line, RunOf(line, 1, {" "}) + 1), FenceMark)

\* len(fence_match.group(1))
IndentOf(line) == RunOf(line, 1, {" "})

\* line 167 removing one space only instead of line[indent:]
opening_fence_OneSpace(line, indent) == IF indent > 0 THEN From(line, 2) ELSE line

\* line 167: line[indent:]
opening_fence(line, indent) == From(line, indent + 1)

\* lines 172 and 176-179: line[fence_indent:] if the line starts with that
\* many spaces, the line as it is otherwise
dedented(line, fence_indent) ==
    IF startswith(line, Spaces(fence_indent)) THEN From(line, fence_indent + 1) ELSE line

\* the loop of lines 157-182 from one line on: normalized_lines
RECURSIVE normalized_lines(_, _, _)
normalized_lines(lines, in_code_fence, fence_indent) ==
    IF Len(lines) = 0 THEN <<>>
    ELSE IF IsFence(Head(lines)) /\ ~in_code_fence
    THEN <<opening_fence(Head(lines), IndentOf(Head(lines)))>>
         \o normalized_lines(Tail(lines), TRUE, IndentOf(Head(lines)))
    ELSE IF IsFence(Head(lines))
    THEN <<dedented(Head(lines), fence_indent)>> \o normalized_lines(Tail(lines), FALSE, 0)
    ELSE IF in_code_fence
    THEN <<dedented(Head(lines), fence_indent)>>
         \o normalized_lines(Tail(lines), TRUE, fence_indent)
    ELSE <<Head(lines)>> \o normalized_lines(Tail(lines), FALSE, fence_indent)

normalize_code_fence_indentation(markdown_content) ==
    join("\n", normalized_lines(split(markdown_content, "\n"), FALSE, 0))

(***************************************************************************)
(* generate_toc                                                            *)
(***************************************************************************)
LevelDigits == { "1", "2", "3", "4", "5", "6" }

\* the greatest element of a non-empty set of integers
Max(S) == CHOOSE k \in S : \A j \in S : j <= k

\* </h[1-6]> at position e of s
ClosesHeading(s, e) ==
    /\ Slice(s, e, e + 2) = "</h"
    /\ CharAt(s, e + 3) \in LevelDigits
    /\ CharAt(s, e + 4) = ">"

\* (.*?)</h[1-6]> from position t on: where the closing tag can stand ("."
\* matches no newline); the lazy group takes the least of them
TextEnds(s, t) ==
    { e \in t..Len(s) : ClosesHeading(s, e) /\ ~contains(Slice(s, t, e - 1), "\n") }

\* heading_pattern = <h([1-6])[^>]*id="([^"]*)"[^>]*>(.*?)</h[1-6]> matched at
\* the start of s with id=" at position q: the groups, given the length of
\* the id, the position gt of the > that ends the tag and the ends of the text
TocGroups(s, q, idLen, gt, ends) ==
    [ok |-> /\ CharAt(s, q + 4 + idLen) = Quote
            /\ CharAt(s, gt) = ">"
            /\ ends # {},
     level |-> CharAt(s, 3),
     heading_id |-> Slice(s, q + 4, q + 3 + idLen),
     heading_text |-> IF ends = {} THEN "" ELSE Slice(s, gt + 1, Min(ends) - 1),
     len |-> IF ends = {} THEN 0 ELSE Min(ends) + 4]

TocAfterTag(s, q, idLen, gt) == TocGroups(s, q, idLen, gt, TextEnds(s, gt + 1))

TocAfterId(s, q, idLen) ==
    TocAfterTag(s, q, idLen, q + 5 + idLen + RunUntil(s, q + 5 + idLen, ">"))

TocAt(s, q) == TocAfterId(s, q, RunUntil(s, q + 4, Quote))

\* the positions of id=" that [^>]* can reach and from which the rest matches
TocIdPositions(s) ==
    { q \in 4..Len(s) : /\ Slice(s, q, q + 3) = IdAttr
                        /\ ~contains(Slice(s, 4, q - 1), ">")
                        /\ TocAt(s, q).ok }

\* [^>]* is greedy: the last such position is taken
TocMatchAmong(s, positions) ==
    IF ~(startswith(s, "<h") /\ CharAt(s, 3) \in LevelDigits) \/ positions = {}
    THEN [ok |-> FALSE, level |-> "", heading_id |-> "", heading_text |-> "", len |-> 0]
    ELSE TocAt(s, Max(positions))

TocMatch(s) == TocMatchAmong(s, TocIdPositions(s))

\* the positions of s at which heading_pattern matches
TocPositions(s) ==
    { k \in 1..Len(s) : startswith(From(s, k), "<h") /\ TocMatch(From(s, k)).ok }

\* re.findall(heading_pattern, html_content)
RECURSIVE findall_headings(_)
RECURSIVE headings_from(_, _)
RECURSIVE headings_at(_, _, _)

headings_at(html_content, at, m) ==
    <<m>> \o findall_headings(From(html_content, at + m.len))

headings_from(html_content, at) ==
    IF at = 0 THEN <<>>
    ELSE headings_at(html_content, at, TocMatch(From(html_content, at)))

findall_headings(html_content) ==
    headings_from(html_content, FirstMatch(TocPositions(html_content)))

\* <[^>]+> at the start of s: its length, 0 if it does not match
TagLength(s) ==
    IF startswith(s, "<") /\ RunUntil(s, 2, ">") >= 1 /\ CharAt(s, 2 + RunUntil(s, 2, ">")) = ">"
    THEN 2 + RunUntil(s, 2, ">")
    ELSE 0

\* re.sub(r'<[^>]+>', '', heading_text)
RECURSIVE remove_tags(_)
RECURSIVE remove_tags_from(_, _)

remove_tags_from(s, at) ==
    IF at = 0 THEN s
    ELSE Slice(s, 1, at - 1) \o remove_tags(From(s, at + TagLength(From(s, at))))

remove_tags(s) ==
    remove_tags_from(s, FirstMatch({ k \in 1..Len(s) : TagLength(From(s, k)) > 0 }))

\* lines 336-342: the items of the list, one for every heading whose clean
\* text is not empty
toc_items_of(headings) ==
    SelectSeq([k \in 1..Len(headings) |->
                  [level |-> headings[k].level, heading_id |-> headings[k].heading_id,
                   clean_text |-> strip(remove_tags(headings[k].heading_text))]],
              LAMBDA item : item.clean_text # "")

\* lines 332-344: the toc-empty placeholder when findall found nothing, the
\* list of the items otherwise
toc_of(headings) ==
    IF Len(headings) = 0
    THEN [empty_marker |-> TRUE, toc_items |-> <<>>]
    ELSE [empty_marker |-> FALSE, toc_items |-> toc_items_of(headings)]

generate_toc(html_content) == toc_of(findall_headings(html_content))

(***************************************************************************)
(* generate_html_content: the body of its loop over the files              *)
(***************************************************************************)
\* s.title()
RECURSIVE TitleFrom(_, _)
TitleFrom(s, prevCased) ==
    IF Len(s) = 0 THEN ""
    ELSE LET c == Head(s)
             isLower == \E k \in 1..Len(LowerCase) : CharAt(LowerCase, k) = c
             isUpper == \E k \in 1..Len(UpperCase) : CharAt(UpperCase, k) = c
             upper == CharAt(UpperCase, CHOOSE k \in 1..Len(LowerCase) : CharAt(LowerCase, k) = c)
             out == IF prevCased THEN LowerChar(c)
                    ELSE IF isLower THEN upper ELSE c
         IN  out \o TitleFrom(Tail(s), isLower \/ isUpper)

title(s) == TitleFrom(s, FALSE)

\* x.replace('_', ' ').replace('-', ' ').title()
display_name(x) == title(replace(replace(x, "_", " "), "-", " "))

\* lines 961-970
section_title_of(file) ==
    LET rel_path == Path(file) IN
    IF Len(PathParent(rel_path).parts) = 0
    THEN display_name(PathStem(rel_path))
    ELSE display_name(PathName(PathParent(rel_path))) \o " / " \o display_name(PathStem(rel_path))

\* the tags a loop "for tag in tags" visits, or a TypeError
TagsIterated(tags) ==
    CASE tags.kind = "list" -> [raised |-> "none", tags |-> tags.items]
      [] tags.kind = "str" ->
            [raised |-> "none", tags |-> [k \in 1..Len(tags.s) |-> PyStr(CharAt(tags.s, k))]]
      [] tags.kind = "dict" ->
            [raised |-> "none", tags |-> [k \in 1..Len(tags.items) |-> PyStr(tags.items[k][1])]]
      [] OTHER -> [raised |-> "TypeError", tags |-> <<>>]     \* an int is not iterable

\* hash(tag) raises TypeError for a list or a dict
Hashable(tag) == tag.kind \notin {"list", "dict"}

\* line 977: 'tags' in frontmatter and frontmatter['tags'], for whatever
\* value yaml.safe_load returned; tags is the value then bound to tags
TagsOf(frontmatter) ==
    CASE frontmatter.kind = "dict" ->
            IF HasKey(frontmatter, "tags") /\ Truthy(GetKey(frontmatter, "tags"))
            THEN [raised |-> "none", present |-> TRUE, tags |-> GetKey(frontmatter, "tags")]
            ELSE [raised |-> "none", present |-> FALSE, tags |-> PyNone]
      [] frontmatter.kind = "str" ->
            IF contains(frontmatter.s, "tags")
            THEN [raised |-> "TypeError", present |-> FALSE, tags |-> PyNone]  \* str['tags']
            ELSE [raised |-> "none", present |-> FALSE, tags |-> PyNone]
      [] frontmatter.kind = "list" ->
            IF \E k \in 1..Len(frontmatter.items) : frontmatter.items[k] = PyStr("tags")
            THEN [raised |-> "TypeError", present |-> FALSE, tags |-> PyNone]  \* list['tags']
            ELSE [raised |-> "none", present |-> FALSE, tags |-> PyNone]
      [] OTHER -> [raised |-> "TypeError", present |-> FALSE, tags |-> PyNone] \* 'tags' in 42

\* lines 980-987: every tag gets the entry of this file appended to its bucket
RECURSIVE AddTags(_, _, _)
AddTags(map, tags, entry) ==
    IF Len(tags) = 0 THEN [raised |-> "none", map |-> map]
    ELSE IF ~Hashable(Head(tags)) THEN [raised |-> "TypeError", map |-> map]
    ELSE LET tag == Head(tags)
             known == \E k \in 1..Len(map) : map[k].tag = tag
             added == IF known
                      THEN [k \in 1..Len(map) |->
                              IF map[k].tag = tag
                              THEN [map[k] EXCEPT !.entries = Append(@, entry)]
                              ELSE map[k]]
                      ELSE Append(map, [tag |-> tag, entries |-> <<entry>>])
         IN  AddTags(added, Tail(tags), entry)

\* the files read by read_markdown_file (an unreadable file reads as "") with
\* the output of md.convert on the body parse_frontmatter leaves
Documents ==
    { [content |-> "text",
       rendered |-> "<h1 id=" \o Quote \o "t" \o Quote \o ">T</h1><p><a href="
                    \o Quote \o "../b.md" \o Quote \o ">B</a></p>"],
      [content |-> "---\ntags: [a, b]\n---\ntext", rendered |-> "<p>text</p>"],
      [content |-> "---\n42\n---\ntext", rendered |-> "<p>text</p>"],
      [content |-> "---\ntags: 5\n---\ntext", rendered |-> "<p>text</p>"],
      [content |-> "---\nk: [\n---\ntext", rendered |-> "<p>text</p>"],
      [content |-> "---\ntitle: x\ntext",
       rendered |-> "<p><a href=" \o Quote \o "zz.md" \o Quote \o ">Z</a></p>"],
      [content |-> " \n", rendered |-> ""] }

\* lines 977-987: the tags visited and the tag_file_map they give, or the
\* TypeError raised on the way
tags_added(found, entry) ==
    IF found.raised # "none" THEN [raised |-> found.raised, map |-> tag_file_map]
    ELSE IF ~found.present THEN [raised |-> "none", map |-> tag_file_map]
    ELSE IF TagsIterated(found.tags).raised # "none"
    THEN [raised |-> TagsIterated(found.tags).raised, map |-> tag_file_map]
    ELSE AddTags(tag_file_map, TagsIterated(found.tags).tags, entry)

\* the warnings one file prints
printed_by(parsed, converted) ==
    (IF parsed.warning THEN <<[kind |-> "frontmatter", link |-> "", index |-> i]>> ELSE <<>>)
        \o converted.warnings

\* lines 956-1013, given the results of the calls they make
section_added(file, printed, converted, added) ==
    IF added.raised # "none"
    THEN /\ raised' = added.raised
         /\ pc' = "except"
         /\ warnings' = warnings \o printed
         /\ UNCHANGED <<i, sections, tag_file_map>>
    ELSE /\ i' = i + 1
         /\ sections' = Append(sections,
                               [id |-> "section-" \o IntToStr(i),
                                index |-> i,
                                title |-> section_title_of(file),
                                html |-> converted.html])
         /\ tag_file_map' = added.map
         /\ warnings' = warnings \o printed
         /\ UNCHANGED <<pc, raised>>

section_of(file, parsed, converted) ==
    section_added(file, printed_by(parsed, converted), converted,
                  tags_added(TagsOf(parsed.frontmatter),
                             [name |-> section_title_of(file), index |-> i,
                              path |-> PathStr(Path(file))]))

\* one pass of the loop of lines 952-1013 for the file of ordinal i
ProcessFile(doc) ==
    IF strip(doc.content) = ""
    THEN /\ i' = i + 1
         /\ UNCHANGED <<pc, sections, tag_file_map, warnings, raised>>
    ELSE section_of(markdown_files[i + 1], parse_frontmatter(doc.content),
                    convert_markdown_to_html(doc.rendered, i))

(***************************************************************************)
(* generate_navigation and _build_folder_navigation.  folder_tree is a     *)
(* dict in insertion order: the key 'root' holds the list of the files of  *)
(* the input folder, every other key of a level a dict for the folder of   *)
(* that name, and the key 'files' of a folder the list of its files; a     *)
(* file is the pair (i, stem).                                             *)
(***************************************************************************)
TreeBuilt(tree) == [raised |-> "none", tree |-> tree]
TreeRaised(exception) == [raised |-> exception, tree |-> EmptyDict]

\* lines 251-254 and 268-270: level[key] is created as a list when missing and
\* the file is appended to it; a dict has no append
AppendFile(level, key, file) ==
    IF ~HasKey(level, key) THEN TreeBuilt(SetKey(level, key, PyList(<<file>>)))
    ELSE IF GetKey(level, key).kind = "list"
    THEN TreeBuilt(SetKey(level, key, PyList(Append(GetKey(level, key).items, file))))
    ELSE TreeRaised("AttributeError")

\* current_level[part] after the levels below it took the file
Placed(level, part, below) ==
    IF below.raised # "none" THEN below ELSE TreeBuilt(SetKey(level, part, below.tree))

\* lines 261-270 from current_level on: a level that is a list cannot be
\* assigned by key (TypeError)
RECURSIVE Descend(_, _, _)
Descend(current_level, path_parts, file) ==
    IF current_level.kind # "dict" THEN TreeRaised("TypeError")
    ELSE IF Len(path_parts) = 0 THEN AppendFile(current_level, "files", file)
    ELSE Placed(current_level, Head(path_parts),
                Descend(IF HasKey(current_level, Head(path_parts))
                        THEN GetKey(current_level, Head(path_parts)) ELSE EmptyDict,
                        Tail(path_parts), file))

\* lines 250-270 with every folder keyed by its own name alone
AddToTree_ByName(folder_tree, rel_path, index) ==
    IF Len(PathParent(rel_path).parts) = 0
    THEN AppendFile(folder_tree, "root", <<index, PathStem(rel_path)>>)
    ELSE Descend(folder_tree, <<PathName(PathParent(rel_path))>>,
                 <<index, PathStem(rel_path)>>)

\* lines 250-270: one file of the loop
AddToTree(folder_tree, rel_path, index) ==
    IF Len(PathParent(rel_path).parts) = 0
    THEN AppendFile(folder_tree, "root", <<index, PathStem(rel_path)>>)
    ELSE Descend(folder_tree, PathParent(rel_path).parts, <<index, PathStem(rel_path)>>)

\* lines 249-270: the loop over enumerate(self.markdown_files)
RECURSIVE BuildTree(_, _, _)
RECURSIVE BuildRest(_, _, _)

BuildRest(added, files, index) ==
    IF added.raised # "none" THEN added ELSE BuildTree(added.tree, files, index)

BuildTree(folder_tree, files, index) ==
    IF Len(files) = 0 THEN TreeBuilt(folder_tree)
    ELSE BuildRest(AddToTree(folder_tree, Path(Head(files)), index), Tail(files), index + 1)

\* one item of nav_items: the link of a file (index, title, the id of its
\* folder), the opening of a folder (its name and id) or its closing
NavFile(index, text, parent) == [kind |-> "file", index |-> index, text |-> text, id |-> parent]
NavOpen(text, id) == [kind |-> "folder", index |-> "", text |-> text, id |-> id]
NavClose == [kind |-> "end", index |-> "", text |-> "", id |-> ""]

NavItems(items) == [raised |-> "none", items |-> items]
NavRaised(exception) == [raised |-> exception, items |-> <<>>]

\* nav_items after two parts of the output were made one after the other
NavThen(first, second) ==
    IF first.raised # "none" THEN first
    ELSE IF second.raised # "none" THEN second
    ELSE NavItems(first.items \o second.items)

\* "for i, filename in value": the pairs of a list; a dict yields its keys, and
\* a key is unpacked into two names only when it has two characters
Unpacked(value) ==
    IF value.kind = "list"
    THEN NavItems([k \in 1..Len(value.items) |->
                      <<IntToStr(value.items[k][1]), value.items[k][2]>>])
    ELSE IF \A k \in 1..Len(value.items) : Len(value.items[k][1]) = 2
    THEN NavItems([k \in 1..Len(value.items) |->
                      <<CharAt(value.items[k][1], 1), CharAt(value.items[k][1], 2)>>])
    ELSE NavRaised("ValueError")

\* lines 277-278 and 309-311: one link for every pair
FileLinks(pairs, parent) ==
    IF pairs.raised # "none" THEN pairs
    ELSE NavItems([k \in 1..Len(pairs.items) |->
                      NavFile(pairs.items[k][1], display_name(pairs.items[k][2]), parent)])

\* line 297
folder_id_of(parent_path, folder_name) ==
    replace(replace(IF parent_path # "" THEN parent_path \o "_" \o folder_name
                    ELSE folder_name, "/", "_"), "\\", "_")

\* the keys of a folder other than 'files', in insertion order
Subfolders(folder_content) == SelectSeq(folder_content.items, LAMBDA item : item[1] # "files")

RECURSIVE build_folder_navigation(_, _)
RECURSIVE FolderNavigation(_, _, _)

\* lines 295-320: one folder, its files, then its subfolders (each by a call
\* of _build_folder_navigation with this folder's id as parent_path)
FolderNavigation(folder_name, folder_content, folder_id) ==
    NavThen(NavItems(<<NavOpen(display_name(folder_name), folder_id)>>),
      NavThen(IF HasKey(folder_content, "files")
              THEN FileLinks(Unpacked(GetKey(folder_content, "files")), folder_id)
              ELSE NavItems(<<>>),
        NavThen(build_folder_navigation(Subfolders(folder_content), folder_id),
                NavItems(<<NavClose>>))))

\* _build_folder_navigation(folder_tree, parent_path), folder_tree by its items
build_folder_navigation(folder_tree, parent_path) ==
    IF Len(folder_tree) = 0 THEN NavItems(<<>>)
    ELSE IF Head(folder_tree)[1] = "root" \/ Head(folder_tree)[2].kind # "dict"
    THEN build_folder_navigation(Tail(folder_tree), parent_path)
    ELSE NavThen(FolderNavigation(Head(folder_tree)[1], Head(folder_tree)[2],
                                  folder_id_of(parent_path, Head(folder_tree)[1])),
                 build_folder_navigation(Tail(folder_tree), parent_path))

\* lines 276-278
RootLinks(folder_tree) ==
    IF HasKey(folder_tree, "root")
    THEN FileLinks(Unpacked(GetKey(folder_tree, "root")), "")
    ELSE NavItems(<<>>)

\* lines 273-284, given the outcome of the loop that builds folder_tree
Rendered(built) ==
    IF built.raised # "none" THEN NavRaised(built.raised)
    ELSE NavThen(RootLinks(built.tree), build_folder_navigation(built.tree.items, ""))

\* folder_tree after the loop of lines 249-270
folder_tree_of(files) == BuildTree(EmptyDict, files, 0)

generate_navigation(files) == Rendered(folder_tree_of(files))

(***************************************************************************)
(* The run: main calls convert, which calls find_markdown_files and        *)
(* generate_html_content and writes the output file.                       *)
(***************************************************************************)
find_markdown_files ==
    /\ pc = "start"
    /\ \E all_md_files \in Orders(rglob_md) :
         LET r == FindResult(root_exists, all_md_files) IN
         /\ raised' = r.raised
         /\ markdown_files' = r.files
         /\ pc' = IF r.raised = "none" THEN "generate" ELSE "except"
    /\ UNCHANGED <<script, cwd, input_folder, root_exists, disk, i, sections, tag_file_map,
                   navigation, warnings, output_written, exit_code, arg, ret>>

\* generate_html_content, one file of its loop
generate_section ==
    /\ pc = "generate"
    /\ i < Len(markdown_files)
    /\ \E doc \in Documents : ProcessFile(doc)
    /\ UNCHANGED <<script, cwd, input_folder, root_exists, disk, markdown_files, navigation,
                   output_written, exit_code, arg, ret>>

\* generate_html_content after its loop: the page is put together and returned
\* line 1016 and what follows it, given the result of generate_navigation
page_made(nav) ==
    /\ raised' = nav.raised
    /\ navigation' = nav.items
    /\ pc' = IF nav.raised = "none" THEN "write" ELSE "except"

generate_page ==
    /\ pc = "generate"
    /\ i = Len(markdown_files)
    /\ page_made(generate_navigation(markdown_files))
    /\ UNCHANGED <<script, cwd, input_folder, root_exists, disk, markdown_files, i, sections,
                   tag_file_map, warnings, output_written, exit_code, arg, ret>>

\* convert, lines 2156-2167: mkdir raises to the caller, a failure of open
\* or write is caught and printed
write_output ==
    /\ pc = "write"
    /\ \E outcome \in {"written", "mkdir fails", "write fails"} :
         /\ output_written' = IF outcome = "written" THEN output_written + 1 ELSE output_written
         /\ raised' = IF outcome = "mkdir fails" THEN "OSError" ELSE raised
         /\ pc' = IF outcome = "mkdir fails" THEN "except" ELSE "converted"
    /\ UNCHANGED <<script, cwd, input_folder, root_exists, disk, markdown_files, i, sections,
                   tag_file_map, navigation, warnings, exit_code, arg, ret>>

\* main, lines 2200-2210
main_return ==
    /\ pc \in {"converted", "except"}
    /\ exit_code' = IF pc = "except" THEN 1 ELSE 0
    /\ pc' = "done"
    /\ UNCHANGED <<script, cwd, input_folder, root_exists, disk, markdown_files, i, sections,
                   tag_file_map, navigation, warnings, output_written, raised, arg, ret>>

Init ==
    /\ pc = "start"
    /\ \E launch \in Launches : cwd = launch[1] /\ input_folder = launch[2]
    /\ root_exists \in BOOLEAN
    /\ disk \in { S \in SUBSET FileUniverse : Cardinality(S) <= MaxFiles }
    /\ (~root_exists => disk = {})
    /\ markdown_files = <<>>
    /\ i = 0
    /\ sections = <<>>
    /\ tag_file_map = <<>>
    /\ navigation = <<>>
    /\ warnings = <<>>
    /\ output_written = 0
    /\ raised = "none"
    /\ exit_code = -1
    /\ ScriptLoaded
    /\ arg = NoCall
    /\ ret = NoCall

Next ==
    \/ find_markdown_files
    \/ generate_section
    \/ generate_page
    \/ write_output
    \/ main_return

Spec == Init /\ [][Next]_vars

(***************************************************************************)
(* Link resolution over loaded corpora: find_markdown_files, then          *)
(* process_internal_links on one rendered anchor of one document.          *)
(***************************************************************************)
MaxCorpus == 4       \* largest number of files in the input folder
MaxBlocks == 3       \* largest number of blocks of a rendered document

\* md.convert output for a paragraph holding one link
Anchor(href, text) == "<p><a href=" \o Quote \o href \o Quote \o ">" \o text \o "</a></p>"

LinkTargets == { "../b.md", "b.md", "./b.md", "../x/a.md", "zz.md" }

\* what stands before the link in the document: nothing, or a paragraph whose
\* link names no file of the universe
Leads == { "", Anchor("zz.md", "Z") }

resolve_link ==
    /\ pc = "generate"
    /\ arg = NoCall
    /\ \E index \in 0..(Len(markdown_files) - 1), href \in LinkTargets, lead \in Leads :
         /\ arg' = [fn |-> "process_internal_links", href |-> href, lead |-> lead,
                    html |-> lead \o Anchor(href, "B"), index |-> index]
         /\ ret' = process_internal_links(lead \o Anchor(href, "B"), index)
    /\ pc' = "return"
    /\ UNCHANGED <<script, cwd, input_folder, root_exists, disk, markdown_files, i, sections,
                   tag_file_map, navigation, warnings, output_written, raised, exit_code>>

InitLinks ==
    /\ pc = "start"
    /\ \E launch \in Launches : cwd = launch[1] /\ input_folder = launch[2]
    /\ root_exists = TRUE
    /\ disk \in { S \in SUBSET FileUniverse : Cardinality(S) <= MaxCorpus }
    /\ markdown_files = <<>>
    /\ i = 0
    /\ sections = <<>>
    /\ tag_file_map = <<>>
    /\ navigation = <<>>
    /\ warnings = <<>>
    /\ output_written = 0
    /\ raised = "none"
    /\ exit_code = -1
    /\ ScriptLoaded
    /\ arg = NoCall
    /\ ret = NoCall

NextLinks ==
    \/ find_markdown_files
    \/ resolve_link

SpecLinks == InitLinks /\ [][NextLinks]_vars

(***************************************************************************)
(* Navigation over loaded corpora: find_markdown_files, then               *)
(* generate_navigation on the Document Sequence.                           *)
(***************************************************************************)
NavUniverse ==
    { "index.md", "b.md", "a/t.md", "a/x/p.md", "b/x/q.md", "a_b/r.md", "a/b/s.md",
      "a/files/u.md", "a/root/v.md", "root/w.md" }

call_generate_navigation ==
    /\ pc = "generate"
    /\ arg = NoCall
    /\ arg' = [fn |-> "generate_navigation"]
    /\ ret' = generate_navigation(markdown_files)
    /\ pc' = "return"
    /\ UNCHANGED <<script, cwd, input_folder, root_exists, disk, markdown_files, i, sections,
                   tag_file_map, navigation, warnings, output_written, raised, exit_code>>

InitNav ==
    /\ pc = "start"
    /\ cwd = "/w"
    /\ input_folder = "docs"
    /\ root_exists = TRUE
    /\ disk \in { S \in SUBSET NavUniverse : Cardinality(S) <= MaxCorpus }
    /\ markdown_files = <<>>
    /\ i = 0
    /\ sections = <<>>
    /\ tag_file_map = <<>>
    /\ navigation = <<>>
    /\ warnings = <<>>
    /\ output_written = 0
    /\ raised = "none"
    /\ exit_code = -1
    /\ ScriptLoaded
    /\ arg = NoCall
    /\ ret = NoCall

NextNav ==
    \/ find_markdown_files
    \/ call_generate_navigation

SpecNav == InitNav /\ [][NextNav]_vars

(***************************************************************************)
(* The tag index over loaded corpora: find_markdown_files, then the loop   *)
(* of generate_html_content over files whose contents are fixed at start.  *)
(***************************************************************************)
TagUniverse == { "index.md", "b.md", "x/a.md" }

\* what a file can hold: no frontmatter, two tags, one tag twice, a tag
\* written as a scalar, an empty tag list
TagDocuments ==
    { [content |-> "text", rendered |-> "<p>text</p>"],
      [content |-> "---\ntags: [a, b]\n---\ntext", rendered |-> "<p>text</p>"],
      [content |-> "---\ntags: [a, a]\n---\ntext", rendered |-> "<p>text</p>"],
      [content |-> "---\ntags: ab\n---\ntext", rendered |-> "<p>text</p>"],
      [content |-> "---\ntags: []\n---\ntext", rendered |-> "<p>text</p>"] }

\* generate_html_content, one file of its loop, read from arg.contents
generate_section_of_file ==
    /\ pc = "generate"
    /\ i < Len(markdown_files)
    /\ ProcessFile(arg.contents[markdown_files[i + 1]])
    /\ UNCHANGED <<script, cwd, input_folder, root_exists, disk, markdown_files, navigation,
                   output_written, exit_code, arg, ret>>

InitTags ==
    /\ pc = "start"
    /\ cwd = "/w"
    /\ input_folder = "docs"
    /\ root_exists = TRUE
    /\ disk \in SUBSET TagUniverse
    /\ markdown_files = <<>>
    /\ i = 0
    /\ sections = <<>>
    /\ tag_file_map = <<>>
    /\ navigation = <<>>
    /\ warnings = <<>>
    /\ output_written = 0
    /\ raised = "none"
    /\ exit_code = -1
    /\ ScriptLoaded
    /\ arg \in { [fn |-> "generate_html_content", contents |-> c] :
                    c \in [TagUniverse -> TagDocuments] }
    /\ ret = NoCall

NextTags ==
    \/ find_markdown_files
    \/ generate_section_of_file

SpecTags == InitTags /\ [][NextTags]_vars

(***************************************************************************)
(* The specifications of one function: arg is drawn from a bounded set,    *)
(* the one action applies the function to it.                              *)
(***************************************************************************)
\* the rest of the state while one function is studied
Idle ==
    /\ cwd = "/w"
    /\ input_folder = "docs"
    /\ root_exists = TRUE
    /\ disk = {}
    /\ markdown_files = <<>>
    /\ i = 0
    /\ sections = <<>>
    /\ tag_file_map = <<>>
    /\ navigation = <<>>
    /\ warnings = <<>>
    /\ output_written = 0
    /\ raised = "none"
    /\ exit_code = -1
    /\ ScriptLoaded

IdleUnchanged ==
    UNCHANGED <<script, cwd, input_folder, root_exists, disk, markdown_files, i, sections,
                tag_file_map, navigation, warnings, output_written, raised, exit_code>>

\* parse_frontmatter on every text of at most MaxLines lines
FMLines == { "---", "----", "---t", " --- ", "", "title: x", "k: [" }

FMTexts ==
    { join("\n", lines) : lines \in UNION { [1..n -> FMLines] : n \in 1..MaxLines } }

call_parse_frontmatter ==
    /\ pc = "call"
    /\ arg.fn = "parse_frontmatter"
    /\ ret' = parse_frontmatter(arg.content)
    /\ pc' = "return"
    /\ UNCHANGED arg
    /\ IdleUnchanged

InitFM ==
    /\ pc = "call"
    /\ arg \in { [fn |-> "parse_frontmatter", content |-> t] : t \in FMTexts }
    /\ ret = NoCall
    /\ Idle

NextFM == call_parse_frontmatter

SpecFM == InitFM /\ [][NextFM]_vars

\* prefix_heading_ids on one heading, for every ordinal and local id
IdChars == { "1", "-", "a" }

LocalIds ==
    { join("", chars) : chars \in UNION { [1..n -> IdChars] : n \in 1..MaxIdLen } }

\* md.convert output for a heading with the id local
Heading(local) == "<h2 id=" \o Quote \o local \o Quote \o ">T</h2>"

\* the id attribute of the first heading of html
HeadingIdOf(html) ==
    HeadingIdMatch(From(html, FirstMatch(HeadingIdPositions(html)))).old_id

call_prefix_heading_ids ==
    /\ pc = "call"
    /\ arg.fn = "prefix_heading_ids"
    /\ ret' = prefix_heading_ids(arg.html_content, arg.section_index)
    /\ pc' = "return"
    /\ UNCHANGED arg
    /\ IdleUnchanged

InitIds ==
    /\ pc = "call"
    /\ arg \in { [fn |-> "prefix_heading_ids", old_id |-> s, html_content |-> Heading(s),
                  section_index |-> n] : s \in LocalIds, n \in 0..MaxOrdinal }
    /\ ret = NoCall
    /\ Idle

NextIds == call_prefix_heading_ids

SpecIds == InitIds /\ [][NextIds]_vars

\* lines 958 and 973 of generate_html_content on one rendered document: the
\* blocks md.convert gives for a heading, a heading with inline markup, a
\* heading written as raw HTML, a heading that holds only an image, a
\* paragraph, and a paragraph with a link to a heading of the same document
TocBlocks ==
    { [html |-> "<h1 id=" \o Quote \o "intro" \o Quote \o ">Intro</h1>",
       level |-> "1", local |-> "intro", text |-> "Intro"],
      [html |-> "<h2 id=" \o Quote \o "a-b" \o Quote \o ">A <em>b</em></h2>",
       level |-> "2", local |-> "a-b", text |-> "A b"],
      [html |-> "<h2>Raw</h2>", level |-> "2", local |-> "", text |-> "Raw"],
      [html |-> "<h1 id=" \o Quote \o "_1" \o Quote \o "><img alt=" \o Quote \o "l"
                \o Quote \o " src=" \o Quote \o "l.png" \o Quote \o " /></h1>",
       level |-> "1", local |-> "_1", text |-> ""],
      [html |-> "<p>text</p>", level |-> "", local |-> "", text |-> ""],
      [html |-> "<p><a href=" \o Quote \o "#intro" \o Quote \o ">Go</a></p>",
       level |-> "", local |-> "", text |-> ""] }

TocOrdinals == { 0, 1, MaxOrdinal }

\* the html of the blocks, one per line
RenderedBlocks(blocks) == join("\n", [k \in 1..Len(blocks) |-> blocks[k].html])

\* generate_toc on the html convert_markdown_to_html returned
toc_made(html_content) == [html |-> html_content, toc |-> generate_toc(html_content)]

call_generate_toc ==
    /\ pc = "call"
    /\ arg.fn = "generate_toc"
    /\ ret' = toc_made(convert_markdown_to_html(RenderedBlocks(arg.blocks), arg.index).html)
    /\ pc' = "return"
    /\ UNCHANGED arg
    /\ IdleUnchanged

InitToc ==
    /\ pc = "call"
    /\ arg \in { [fn |-> "generate_toc", blocks |-> b, index |-> n] :
                    b \in UNION { [1..n -> TocBlocks] : n \in 0..MaxBlocks },
                    n \in TocOrdinals }
    /\ ret = NoCall
    /\ Idle

NextToc == call_generate_toc

SpecToc == InitToc /\ [][NextToc]_vars

\* normalize_code_fence_indentation on every text of at most MaxLines lines
FenceLines ==
    { FenceMark, "  " \o FenceMark, "    " \o FenceMark \o "py", "x", "  x", "    x", "" }

FenceTexts ==
    { join("\n", lines) : lines \in UNION { [1..n -> FenceLines] : n \in 1..MaxLines } }

call_normalize_code_fence_indentation ==
    /\ pc = "call"
    /\ arg.fn = "normalize_code_fence_indentation"
    /\ ret' = normalize_code_fence_indentation(arg.markdown_content)
    /\ pc' = "return"
    /\ UNCHANGED arg
    /\ IdleUnchanged

InitFence ==
    /\ pc = "call"
    /\ arg \in { [fn |-> "normalize_code_fence_indentation", markdown_content |-> t] :
                    t \in FenceTexts }
    /\ ret = NoCall
    /\ Idle

NextFence == call_normalize_code_fence_indentation

SpecFence == InitFence /\ [][NextFence]_vars

(***************************************************************************)
(* Properties of the loader (find_markdown_files).                         *)
(***************************************************************************)
\* find_markdown_files has returned without raising
FindSucceeded ==
    /\ pc \in {"generate", "write", "converted", "except", "done", "return"}
    /\ raised \notin {"FileNotFoundError", "ValueError"}

\* find_markdown_files has raised
LoadFailed == raised \in {"FileNotFoundError", "ValueError"}

HasEntryBaseName(file) == lower(PathName(Path(file))) = "index.md"

\* the ordinals at which file stands in the Document Sequence
OrdinalsOf(file) == { k \in 1..Len(markdown_files) : markdown_files[k] = file }

\* C1: after find_markdown_files succeeds the Document Sequence is not
\* empty, the document at ordinal 0 is a discovered file whose base name is
\* index.md compared case-insensitively, and distinct ordinals name distinct
\* files.
C1_EntryFirstDistinctOrdinals ==
    FindSucceeded =>
        /\ Len(markdown_files) > 0
        /\ HasEntryBaseName(markdown_files[1])
        /\ markdown_files[1] \in rglob_md
        /\ \A a, b \in 1..Len(markdown_files) :
               a # b => markdown_files[a] # markdown_files[b]

\* C1 witness: a loaded sequence of three documents whose entry document is
\* spelled Index.md
C1_Witness ==
    /\ pc = "generate"
    /\ Len(markdown_files) = 3
    /\ markdown_files[1] = "sub/Index.md"

\* C2: for every set of discovered files, also one with several entry-named
\* files, exactly one entry-named file is at ordinal 0, the other discovered
\* files follow it in sorted path order, and every discovered file is in the
\* Document Sequence exactly once.
C2_EveryDiscoveredFileOnce ==
    FindSucceeded =>
        /\ HasEntryBaseName(markdown_files[1])
        /\ \A f \in rglob_md : Cardinality(OrdinalsOf(f)) = 1
        /\ \A a, b \in 2..Len(markdown_files) :
               a < b => StrLess(FullStr(markdown_files[a]), FullStr(markdown_files[b]))

\* C3: the Document Sequence is a function of the set of files: every
\* discovery order of the same set gives the sequence of this run.
C3_DiscoveryOrderIrrelevant ==
    FindSucceeded =>
        \A order \in Orders(rglob_md) : FindResult(TRUE, order).files = markdown_files

\* C4: find_markdown_files raises FileNotFoundError when the root does not
\* exist or holds no markdown file, ValueError when markdown files exist but
\* none has the entry base name; then no Document Sequence is produced and
\* no section is assembled.
C4_LoaderFailures ==
    (pc # "start") =>
        /\ (~root_exists \/ rglob_md = {}) =>
               (raised = "FileNotFoundError" /\ markdown_files = <<>> /\ sections = <<>>)
        /\ (root_exists /\ rglob_md # {} /\ ~\E f \in rglob_md : HasEntryBaseName(f)) =>
               (raised = "ValueError" /\ markdown_files = <<>> /\ sections = <<>>)

\* C4 witness: two markdown files, none of them the entry document, and the
\* run has ended on the ValueError
C4_Witness ==
    /\ pc = "done"
    /\ raised = "ValueError"
    /\ Cardinality(rglob_md) = 2

(***************************************************************************)
(* Properties of the run (convert and main).                               *)
(***************************************************************************)
\* C5: a run ends either past loading with exactly one output file written,
\* or failed during loading with nothing written; and no run returns
\* success without the output file written.
C5_ArtifactOrLoadFailure ==
    (pc = "done") =>
        /\ \/ (LoadFailed /\ output_written = 0)
           \/ (~LoadFailed /\ output_written = 1)
        /\ (exit_code = 0 => output_written = 1)

\* C6: once loading has succeeded no document aborts the run:
\* generate_html_content gets through every document of the sequence.
C6_NoDocumentAbortsTheRun ==
    (FindSucceeded /\ pc \in {"write", "converted", "except", "done"}) =>
        /\ i = Len(markdown_files)
        /\ raised # "TypeError"

(***************************************************************************)
(* Properties of parse_frontmatter.                                        *)
(***************************************************************************)
Returned(fn) == pc = "return" /\ arg.fn = fn

\* the lines of a text after its leading whitespace is trimmed
TrimmedLines(text) == split(lstrip(text), "\n")

\* the text opens a frontmatter block: its first line is three hyphens
OpensBlock(text) == TrimmedLines(text)[1] = "---"

\* the lines after the first that are three hyphens
ClosingLines(text) ==
    { k \in 2..Len(TrimmedLines(text)) : TrimmedLines(text)[k] = "---" }

\* the block between the opening line and the first closing line
BlockOf(text) ==
    join("\n", SubSeq(TrimmedLines(text), 2, Min(ClosingLines(text)) - 1))

\* the text after the first closing line
BodyOf(text) ==
    join("\n", SubSeq(TrimmedLines(text), Min(ClosingLines(text)) + 1,
                      Len(TrimmedLines(text))))

\* C7: for a text that opens a frontmatter block that is never closed, or
\* whose block fails to parse, parse_frontmatter returns the empty mapping
\* and a warning is printed.
C7_MalformedBlockWarns ==
    (/\ Returned("parse_frontmatter")
     /\ OpensBlock(arg.content)
     /\ \/ ClosingLines(arg.content) = {}
        \/ yaml_safe_load(BlockOf(arg.content)).kind = "YAMLError") =>
        (ret.frontmatter = EmptyDict /\ ret.warning)

\* C8: a block is recognized only when the first line is exactly three
\* hyphens and a later line is exactly three hyphens; then the lines
\* strictly between them are parsed and the text after the closing line is
\* the body; every other text gives the empty mapping and the text itself.
C8_BlockRecognizedOnlyBetweenExactDelimiters ==
    Returned("parse_frontmatter") =>
        IF OpensBlock(arg.content) /\ ClosingLines(arg.content) # {}
        THEN LET loaded == yaml_safe_load(BlockOf(arg.content)) IN
             /\ ret.frontmatter =
                    (IF loaded.kind = "YAMLError" \/ ~Truthy(loaded) THEN EmptyDict ELSE loaded)
             /\ strip(ret.body) = strip(BodyOf(arg.content))
        ELSE ret.frontmatter = EmptyDict /\ ret.body = arg.content

(***************************************************************************)
(* Properties of prefix_heading_ids.                                       *)
(***************************************************************************)
\* C9: namespacing is injective across documents: the id written for
\* (i1, s1) differs from the id written for (i2, s2) whenever i1 # i2,
\* whatever the local ids are.
C9_NamespacedIdsInjective ==
    Returned("prefix_heading_ids") =>
        \A n \in 0..MaxOrdinal, s \in LocalIds :
            n # arg.section_index =>
                HeadingIdOf(prefix_heading_ids(Heading(s), n)) # HeadingIdOf(ret)

\* C9 witness: the heading of ordinal 1 with the local id "1-" has been
\* namespaced; ordinal 11 with the local id "-" is the nearest other pair
C9_Witness ==
    /\ Returned("prefix_heading_ids")
    /\ arg.section_index = 1
    /\ arg.old_id = "1-"
    /\ HeadingIdOf(ret) = "section-1-1-"

(***************************************************************************)
(* Properties of the link resolver.                                        *)
(***************************************************************************)
\* the navigation trigger process_internal_links writes for a target ordinal
Trigger(target, text) ==
    "<p><a href=" \o Quote \o "#" \o Quote \o " onclick=" \o Quote
        \o "navigateToSection(" \o IntToStr(target) \o "); return false;" \o Quote
        \o " class=" \o Quote \o "internal-link" \o Quote \o ">" \o text \o "</a></p>"

\* C10: in every corpus with A at x/a.md and B at b.md, whatever the working
\* directory, the link ../b.md of A is rewritten into the navigation trigger
\* of B's ordinal.
C10_ParentLinkReachesRootDocument ==
    (/\ Returned("process_internal_links")
     /\ arg.lead = ""
     /\ markdown_files[arg.index + 1] = "x/a.md"
     /\ arg.href = "../b.md"
     /\ OrdinalsOf("b.md") # {}) =>
        ret.html = Trigger(Min(OrdinalsOf("b.md")) - 1, "B")

\* the path of the sequence a link of the document at ordinal index names:
\* the directory of the document joined with href, "." and ".." folded
StructuralTarget(index, href) ==
    join("/", CollapseDots(PathParent(Path(markdown_files[index + 1])).parts
                               \o PathParts(href), <<>>))

\* href climbs above the input root from the document at ordinal index
ClimbsAboveRoot(index, href) ==
    /\ startswith(href, "../")
    /\ Len(PathParent(Path(markdown_files[index + 1])).parts) = 0

\* C11: whatever the working directory, a link (plain, ./-prefixed or
\* ../-prefixed) whose path, taken from the directory of its document and
\* normalized, is the relative path of a document T of the sequence is
\* rewritten to T's ordinal, also when another document shares T's base name.
C11_StructuralMatchFromOwnDirectory ==
    (/\ Returned("process_internal_links")
     /\ arg.lead = ""
     /\ ~ClimbsAboveRoot(arg.index, arg.href)
     /\ OrdinalsOf(StructuralTarget(arg.index, arg.href)) # {}) =>
        ret.html = Trigger(Min(OrdinalsOf(StructuralTarget(arg.index, arg.href))) - 1, "B")

\* no document of the sequence has the base name of href
NoBaseName(href) ==
    \A k \in 1..Len(markdown_files) :
        PathName(Path(markdown_files[k])) # PathName(Path(href))

\* the warning printed for an unresolved link
LinkWarning(href, index) == [kind |-> "link", link |-> href, index |-> index]

FolderPositions(items) == { k \in 1..Len(items) : items[k].kind = "folder" }

\* C13: any two distinct folders of the navigation, whatever their names
\* (underscores and hyphens included), have different identifiers.
C13_FolderIdsUnique ==
    (Returned("generate_navigation") /\ ret.raised = "none") =>
        \A p, q \in FolderPositions(ret.items) :
            p # q => ret.items[p].id # ret.items[q].id

\* the directory of the document at position k of the sequence, by its parts
ParentParts(k) == PathParent(Path(markdown_files[k])).parts

\* the node folder_tree holds for a folder path, None if it holds none
RECURSIVE NodeAt(_, _)
NodeAt(node, parts) ==
    IF Len(parts) = 0 THEN node
    ELSE IF node.kind # "dict" \/ ~HasKey(node, Head(parts)) THEN PyNone
    ELSE NodeAt(GetKey(node, Head(parts)), Tail(parts))

\* the files (i, stem) of the documents that lie directly in a folder, in
\* sequence order
FilesIn(parts) ==
    LET ordinals == SelectSeq([k \in 1..Len(markdown_files) |-> k],
                              LAMBDA k : ParentParts(k) = parts)
    IN  [n \in 1..Len(ordinals) |->
            <<ordinals[n] - 1, PathStem(Path(markdown_files[ordinals[n]]))>>]

\* the folder node of a path holds exactly the files directly in that folder
HoldsItsFiles(tree, parts) ==
    /\ NodeAt(tree, parts).kind = "dict"
    /\ HasKey(NodeAt(tree, parts), "files")
    /\ GetKey(NodeAt(tree, parts), "files").kind = "list"
    /\ GetKey(NodeAt(tree, parts), "files").items = FilesIn(parts)

\* C14: in the folder_tree generate_navigation builds, a folder is one node
\* per ancestor path: the node of a path holds every document directly in
\* that folder and no other, so a/x and b/x are two nodes with their own files.
C14_FolderKeyedByAncestorPath ==
    (/\ Returned("generate_navigation")
     /\ folder_tree_of(markdown_files).raised = "none") =>
        \A k \in 1..Len(markdown_files) :
            ParentParts(k) # <<>> =>
                HoldsItsFiles(folder_tree_of(markdown_files).tree, ParentParts(k))

\* a/x and b/x in one corpus
C14_Witness ==
    /\ Returned("generate_navigation")
    /\ markdown_files = <<"index.md", "a/x/p.md", "b/x/q.md">>
    /\ NodeAt(folder_tree_of(markdown_files).tree, <<"a", "x">>)
           = PyDict(<< <<"files", PyList(<< <<1, "p">> >>)>> >>)
    /\ NodeAt(folder_tree_of(markdown_files).tree, <<"b", "x">>)
           = PyDict(<< <<"files", PyList(<< <<2, "q">> >>)>> >>)

\* an item of the navigation without its identifiers
Listed(kind, index, text) == [kind |-> kind, index |-> index, text |-> text]

\* the documents in sequence order, each with its ordinal, the parts of its
\* directory and its stem
SequenceDocuments ==
    [k \in 1..Len(markdown_files) |->
        [index |-> IntToStr(k - 1), dir |-> ParentParts(k),
         stem |-> PathStem(Path(markdown_files[k]))]]

\* the names of a sequence, each at its first occurrence only
RECURSIVE FirstEncountered(_, _)
FirstEncountered(names, seen) ==
    IF Len(names) = 0 THEN <<>>
    ELSE IF Head(names) \in seen THEN FirstEncountered(Tail(names), seen)
    ELSE <<Head(names)>> \o FirstEncountered(Tail(names), seen \cup {Head(names)})

\* the listing of the documents of one folder, dir being taken from that
\* folder: its own files in sequence order, then its subfolders in the order
\* they are first encountered, each listed the same way
RECURSIVE Listing(_)
RECURSIVE ListingOf(_, _)

ListingOf(docs, folders) ==
    IF Len(folders) = 0 THEN <<>>
    ELSE <<Listed("folder", "", display_name(Head(folders)))>>
         \o Listing([k \in 1..Len(SelectSeq(docs, LAMBDA d : Len(d.dir) > 0 /\ Head(d.dir) = Head(folders))) |->
                        [SelectSeq(docs, LAMBDA d : Len(d.dir) > 0 /\ Head(d.dir) = Head(folders))[k]
                            EXCEPT !.dir = Tail(@)]])
         \o <<Listed("end", "", "")>>
         \o ListingOf(docs, Tail(folders))

Listing(docs) ==
    LET own == SelectSeq(docs, LAMBDA d : Len(d.dir) = 0)
        below == SelectSeq(docs, LAMBDA d : Len(d.dir) > 0)
    IN  [k \in 1..Len(own) |-> Listed("file", own[k].index, display_name(own[k].stem))]
        \o ListingOf(docs, FirstEncountered([k \in 1..Len(below) |-> Head(below[k].dir)], {}))

\* C15: the navigation lists the documents of the root first in sequence
\* order, then the top-level folders in the order they are first encountered
\* in the sequence, and every folder the same way: its own files in sequence
\* order, then its subfolders in first-encountered order.
C15_NavigationOrder ==
    (Returned("generate_navigation") /\ ret.raised = "none") =>
        [k \in 1..Len(ret.items) |->
            Listed(ret.items[k].kind, ret.items[k].index, ret.items[k].text)]
          = Listing(SequenceDocuments)

(***************************************************************************)
(* Properties of the tag index.                                            *)
(***************************************************************************)
\* the loop of generate_html_content has processed every document
AllProcessed ==
    /\ arg.fn = "generate_html_content"
    /\ pc = "generate"
    /\ i = Len(markdown_files)

\* the frontmatter of the document at position k of the sequence
FrontmatterOf(k) == parse_frontmatter(arg.contents[markdown_files[k]].content).frontmatter

\* the tags of the document at position k: the value of the key tags of its
\* frontmatter, a single tag when it is written as a scalar
TagListOf(k) ==
    IF FrontmatterOf(k).kind # "dict" \/ ~HasKey(FrontmatterOf(k), "tags") THEN <<>>
    ELSE IF GetKey(FrontmatterOf(k), "tags").kind = "list"
    THEN GetKey(FrontmatterOf(k), "tags").items
    ELSE IF GetKey(FrontmatterOf(k), "tags").kind = "None" THEN <<>>
    ELSE <<GetKey(FrontmatterOf(k), "tags")>>

\* the entry of the document at position k in a bucket
TagEntry(k) ==
    [name |-> section_title_of(markdown_files[k]), index |-> k - 1,
     path |-> markdown_files[k]]

\* one entry for every occurrence of tag in the documents from position k on
RECURSIVE Occurrences(_, _)
Occurrences(tag, k) ==
    IF k > Len(markdown_files) THEN <<>>
    ELSE [n \in 1..Len(SelectSeq(TagListOf(k), LAMBDA t : t = tag)) |-> TagEntry(k)]
         \o Occurrences(tag, k + 1)

\* C16: once every document is processed, the bucket of a tag holds one
\* entry (ordinal, title, relative path) for every occurrence of the tag in
\* the tag list of a document, in document order, duplicates kept; there is
\* a bucket exactly for the tags that occur, and none when no tag occurs.
C16_TagIndexByOccurrence ==
    AllProcessed =>
        /\ { tag_file_map[b].tag : b \in 1..Len(tag_file_map) }
             = UNION { { TagListOf(k)[n] : n \in 1..Len(TagListOf(k)) } :
                        k \in 1..Len(markdown_files) }
        /\ \A b \in 1..Len(tag_file_map) :
              tag_file_map[b].entries = Occurrences(tag_file_map[b].tag, 1)

(***************************************************************************)
(* Properties of the table of contents.                                    *)
(***************************************************************************)
\* the prefix of the ids of the document of ordinal n
SectionPrefix(n) == "section-" \o IntToStr(n) \o "-"

\* the blocks of the document that are headings, in document order
HeadingBlocks(blocks) == SelectSeq(blocks, LAMBDA b : b.level # "")

\* a link of the document to the heading with the id local
AnchorTo(id) == "<a href=" \o Quote \o "#" \o id \o Quote \o ">"

\* C17: every id of a TOC entry of the document of ordinal i has the form
\* section-i-<local id> and is the id of a heading of the final HTML, and a
\* link of the document to one of its own headings points to the namespaced
\* id of that heading.
C17_OneIdForTocAndAnchors ==
    Returned("generate_toc") =>
        /\ \A k \in 1..Len(ret.toc.toc_items) :
              /\ startswith(ret.toc.toc_items[k].heading_id, SectionPrefix(arg.index))
              /\ contains(ret.html, IdAttr \o ret.toc.toc_items[k].heading_id \o Quote)
        /\ \A k, h \in 1..Len(arg.blocks) :
              (/\ arg.blocks[h].local # ""
               /\ contains(arg.blocks[k].html, AnchorTo(arg.blocks[h].local))) =>
                  /\ contains(ret.html, AnchorTo(SectionPrefix(arg.index) \o arg.blocks[h].local))
                  /\ ~contains(ret.html, AnchorTo(arg.blocks[h].local))

\* the TOC entry of a heading block of the document of ordinal n
EntryOfHeading(block, n) ==
    [level |-> block.level,
     heading_id |-> IF block.local = "" THEN "" ELSE SectionPrefix(n) \o block.local,
     clean_text |-> block.text]

\* C18: the TOC has one entry (level, namespaced id, text without markup) for
\* every heading of level 1 to 6 of the document, in document order.
C18_TocEntryForEveryHeading ==
    Returned("generate_toc") =>
        ret.toc.toc_items
          = [k \in 1..Len(HeadingBlocks(arg.blocks)) |->
                EntryOfHeading(HeadingBlocks(arg.blocks)[k], arg.index)]

\* C19: a TOC without entries is the toc-empty placeholder, never an empty
\* list.
C19_EmptyTocIsTheMarker ==
    Returned("generate_toc") =>
        (Len(ret.toc.toc_items) = 0 => ret.toc.empty_marker)

(***************************************************************************)
(* Properties of normalize_code_fence_indentation.                         *)
(***************************************************************************)
\* every fence line of the text starts at column 0
FencesAtColumnZero(text) ==
    \A k \in 1..Len(split(text, "\n")) :
        IsFence(split(text, "\n")[k]) => IndentOf(split(text, "\n")[k]) = 0

RECURSIVE FenceRoles(_, _, _)
FenceRoles(lines, open, w) ==
    IF Len(lines) = 0 THEN <<>>
    ELSE IF IsFence(Head(lines)) /\ ~open
    THEN <<[role |-> "opening", w |-> IndentOf(Head(lines))]>>
         \o FenceRoles(Tail(lines), TRUE, IndentOf(Head(lines)))
    ELSE IF IsFence(Head(lines))
    THEN <<[role |-> "closing", w |-> w]>> \o FenceRoles(Tail(lines), FALSE, 0)
    ELSE IF open
    THEN <<[role |-> "between", w |-> w]>> \o FenceRoles(Tail(lines), TRUE, w)
    ELSE <<[role |-> "outside", w |-> 0]>> \o FenceRoles(Tail(lines), FALSE, 0)

\* line k belongs to a fenced block that has its closing fence
InClosedBlock(roles, k) ==
    /\ roles[k].role # "outside"
    /\ \E j \in k..Len(roles) :
          /\ roles[j].role = "closing"
          /\ \A m \in (k + 1)..j : roles[m].role # "opening"

\* every line of every closed block, re-indented by the width of its opening
\* fence, is the line of the original text
Reindented(lines, out, roles) ==
    \A k \in 1..Len(lines) :
        InClosedBlock(roles, k) => Spaces(roles[k].w) \o out[k] = lines[k]

\* C21: for every fenced block whose opening fence has indent w, re-indenting
\* each normalized line of the block by w spaces recovers the original block
\* byte for byte.
C21_FenceDedentReversible ==
    Returned("normalize_code_fence_indentation") =>
        Reindented(split(arg.markdown_content, "\n"), split(ret, "\n"),
                   FenceRoles(split(arg.markdown_content, "\n"), FALSE, 0))

\* what the claim expects of one line: exactly w spaces removed from a fence
\* line, min(w, leading spaces) removed from a line between the fences, and
\* nothing removed outside
ExpectedLine(line, out, r) ==
    CASE r.role \in {"opening", "closing"} -> line = Spaces(r.w) \o out
      [] r.role = "between" -> out = From(line, Min({r.w, IndentOf(line)}) + 1)
      [] OTHER -> out = line

ExpectedLines(lines, out, roles) ==
    \A k \in 1..Len(lines) : ExpectedLine(lines[k], out[k], roles[k])

\* C22: inside an open fence of indent w exactly w leading spaces are removed
\* from the opening fence line and from the matching closing fence line, and
\* min(w, leading spaces of the line) from every line between them; every
\* line outside an open fence is returned unchanged.
C22_FenceStripsIndentWidth ==
    Returned("normalize_code_fence_indentation") =>
        ExpectedLines(split(arg.markdown_content, "\n"), split(ret, "\n"),
                      FenceRoles(split(arg.markdown_content, "\n"), FALSE, 0))

\* C23: main returns 0 for every run in which loading succeeds, whatever
\* recoverable anomalies its documents hold (a failure of the file system
\* while the output is written set aside), and returns a non-zero status for
\* each failure of the loader.
C23_AnomaliesKeepExitOutcome ==
    (pc = "done") =>
        /\ (FindSucceeded /\ raised # "OSError") => exit_code = 0
        /\ LoadFailed => exit_code # 0

(***************************************************************************)
(* process_internal_links on the anchors md.convert writes for the link    *)
(* forms of markdown: plain text, emphasised text, code text and a link    *)
(* with a title.                                                           *)
(***************************************************************************)
\* md.convert output for a paragraph holding one link: attrs stands after
\* the href attribute, inner between the tags of the anchor
AnchorElement(href, attrs, inner) ==
    "<p><a href=" \o Quote \o href \o Quote \o attrs \o ">" \o inner \o "</a></p>"

\* [B](h), [*B*](h), [`B`](h) and [B](h "T")
AnchorForms ==
    { [attrs |-> "", inner |-> "B"],
      [attrs |-> "", inner |-> "<em>B</em>"],
      [attrs |-> "", inner |-> "<code>B</code>"],
      [attrs |-> " title=" \o Quote \o "T" \o Quote, inner |-> "B"] }

AnchorTargets == { "b.md", "x/a.md", "zz.md" }

rewrite_anchor ==
    /\ pc = "generate"
    /\ arg = NoCall
    /\ \E index \in 0..(Len(markdown_files) - 1), href \in AnchorTargets,
          form \in AnchorForms :
         /\ arg' = [fn |-> "process_internal_links", href |-> href, form |-> form,
                    html |-> AnchorElement(href, form.attrs, form.inner),
                    index |-> index]
         /\ ret' = process_internal_links(AnchorElement(href, form.attrs, form.inner),
                                          index)
    /\ pc' = "return"
    /\ UNCHANGED <<script, cwd, input_folder, root_exists, disk, markdown_files, i, sections,
                   tag_file_map, navigation, warnings, output_written, raised, exit_code>>

NextAnchors ==
    \/ find_markdown_files
    \/ rewrite_anchor

SpecAnchors == InitLinks /\ [][NextAnchors]_vars

\* the call of navigateToSection a rewritten anchor carries
TriggerCall(target) == "navigateToSection(" \o IntToStr(target) \o ")"

\* the anchor is rewritten into the trigger of the ordinal its href resolves to
RewrittenTo(html, target) == target # NoneIndex => contains(html, TriggerCall(target))

\* C24: every anchor whose href ends in .md and resolves to a document is
\* rewritten into a navigation trigger for the target ordinal, also when its
\* link text holds inline markup and when it carries a title attribute.
C24_EveryMarkdownAnchorRewritten ==
    Returned("process_internal_links") =>
        RewrittenTo(ret.html, find_file_index_by_path(arg.href, arg.index))

\* the ordinals of the documents whose base name is that of href
SameBaseName(href) ==
    { k - 1 : k \in { n \in 1..Len(markdown_files) :
                         PathName(Path(markdown_files[n])) = PathName(Path(href)) } }

\* the comparison by path of lines 398-403 finds no document
NoPathMatch(href, index) ==
    IndexByPath(PathStr(target_rel_of(href, index))) = NoneIndex

\* C25: when the comparison by path matches no document, also for a link
\* that climbs above the input root, nothing is raised and the link goes to
\* the lowest ordinal among the documents with the base name of the target;
\* it stays unresolved only when no document has that base name.
C25_BaseNameFallback ==
    (/\ Returned("process_internal_links")
     /\ arg.lead = ""
     /\ NoPathMatch(arg.href, arg.index)) =>
        /\ SameBaseName(arg.href) # {} =>
               ret.html = Trigger(Min(SameBaseName(arg.href)), "B")
        /\ SameBaseName(arg.href) = {} =>
               (ret.html = arg.html /\ Len(ret.warnings) = 1)

\* the entry document links ../b.md, above the input root, while a/b.md and
\* b.md share the base name: the link goes to a/b.md, the lower ordinal
C25_Witness ==
    /\ Returned("process_internal_links")
    /\ arg.lead = ""
    /\ arg.href = "../b.md"
    /\ arg.index = 0
    /\ NoPathMatch(arg.href, arg.index)
    /\ markdown_files = <<"index.md", "a/b.md", "b.md">>
    /\ ret.html = Trigger(1, "B")

(***************************************************************************)
(* Properties of the assembled page.                                       *)
(***************************************************************************)
\* generate_html_content has returned the page
PageMade == pc \in {"write", "converted", "done"} /\ raised = "none"

\* the ids of the section-i elements emitted
SectionIds == { sections[k].id : k \in 1..Len(sections) }

\* the sections the leaves of the navigation show: showSection(i) looks up
\* the element of id section-i
LeafSections ==
    { "section-" \o navigation[k].index :
        k \in { n \in 1..Len(navigation) : navigation[n].kind = "file" } }

\* the sections the rewritten links of the sections navigate to
LinkedSections ==
    { "section-" \o IntToStr(n) :
        n \in { m \in 0..(Len(markdown_files) - 1) :
                  \E k \in 1..Len(sections) : contains(sections[k].html, TriggerCall(m)) } }

\* the sections the entries of the tag index name
TaggedSections ==
    UNION { { "section-" \o IntToStr(tag_file_map[k].entries[e].index) :
                e \in 1..Len(tag_file_map[k].entries) } : k \in 1..Len(tag_file_map) }

\* C26: every ordinal a navigation leaf, a rewritten link or a tag index
\* entry refers to is the ordinal of a document for which a section-i
\* element was emitted, also when some documents are empty or
\* whitespace-only.
C26_NavigableOrdinalsHaveSections ==
    PageMade =>
        /\ LeafSections \subseteq SectionIds
        /\ LinkedSections \subseteq SectionIds
        /\ TaggedSections \subseteq SectionIds

\* the names shown for the folders that are open after the first n items of
\* the navigation, outermost first
RECURSIVE OpenFolders(_, _)
OpenFolders(items, n) ==
    IF n = 0 THEN <<>>
    ELSE IF items[n].kind = "folder" THEN Append(OpenFolders(items, n - 1), items[n].text)
    ELSE IF items[n].kind = "end"
    THEN SubSeq(OpenFolders(items, n - 1), 1, Len(OpenFolders(items, n - 1)) - 1)
    ELSE OpenFolders(items, n - 1)

\* the positions of the leaves of the document at position k of the sequence
LeavesOf(items, k) ==
    { n \in 1..Len(items) : items[n].kind = "file" /\ items[n].index = IntToStr(k - 1) }

\* the names shown for the folders of a parent-directory path
ShownChain(parts) == [j \in 1..Len(parts) |-> display_name(parts[j])]

\* the document at position k has one leaf, under the chain of its folders
OneLeafUnderItsFolders(items, k) ==
    /\ Cardinality(LeavesOf(items, k)) = 1
    /\ \A n \in LeavesOf(items, k) : OpenFolders(items, n) = ShownChain(ParentParts(k))

\* C27: whatever the folder names are, also root and files, at the top level
\* or nested, generate_navigation returns without raising and its output
\* holds exactly one leaf per document of the sequence, under the folder
\* chain equal to the parent-directory path of the document.
C27_NavigationForAnyFolderNames ==
    Returned("generate_navigation") =>
        /\ ret.raised = "none"
        /\ \A k \in 1..Len(markdown_files) : OneLeafUnderItsFolders(ret.items, k)

(***************************************************************************)
(* The page over corpora whose folders are named like the ids of the       *)
(* content: find_markdown_files, the loop of generate_html_content and     *)
(* generate_navigation.                                                    *)
(***************************************************************************)
PageUniverse == { "index.md", "b.md", "a/c.md", "section-0/d.md", "section-1-t/e.md" }

InitPage ==
    /\ pc = "start"
    /\ cwd = "/w"
    /\ input_folder = "docs"
    /\ root_exists = TRUE
    /\ disk \in { S \in SUBSET PageUniverse : Cardinality(S) <= MaxFiles }
    /\ markdown_files = <<>>
    /\ i = 0
    /\ sections = <<>>
    /\ tag_file_map = <<>>
    /\ navigation = <<>>
    /\ warnings = <<>>
    /\ output_written = 0
    /\ raised = "none"
    /\ exit_code = -1
    /\ ScriptLoaded
    /\ arg = NoCall
    /\ ret = NoCall

NextPage ==
    \/ find_markdown_files
    \/ generate_section
    \/ generate_page

SpecPage == InitPage /\ [][NextPage]_vars

\* the ids of the folder-contents elements of the navigation
FolderIds == { navigation[n].id : n \in FolderPositions(navigation) }

\* some heading of some section carries the id
IsHeadingId(id) ==
    \E k \in 1..Len(sections) :
        contains(sections[k].html, " id=" \o Quote \o id \o Quote)

\* C28: no folder identifier of the navigation equals a section identifier
\* section-i or a namespaced heading identifier section-i-<slug>, so the
\* element of id section-i is the content section of ordinal i alone.
C28_IdsDistinctAcrossKinds ==
    PageMade =>
        \A id \in FolderIds : id \notin SectionIds /\ ~IsHeadingId(id)

(***************************************************************************)
(* wrap_tables on every rendered document of at most MaxBlocks blocks.     *)
(***************************************************************************)
\* md.convert output: a paragraph, a table, a table passed through from
\* inline HTML with an attribute, and a code block that shows a table tag
TableBlocks ==
    { "<p>x</p>",
      "<table><tr><td>x</td></tr></table>",
      "<table border=" \o Quote \o "1" \o Quote \o "><tr><td>x</td></tr></table>",
      "<pre><code>&lt;table&gt;</code></pre>" }

TableTexts ==
    { join("\n", blocks) : blocks \in UNION { [1..n -> TableBlocks] : n \in 1..MaxBlocks } }

call_wrap_tables ==
    /\ pc = "call"
    /\ arg.fn = "wrap_tables"
    /\ ret' = wrap_tables(arg.html_content)
    /\ pc' = "return"
    /\ UNCHANGED arg
    /\ IdleUnchanged

InitTables ==
    /\ pc = "call"
    /\ arg \in { [fn |-> "wrap_tables", html_content |-> t] : t \in TableTexts }
    /\ ret = NoCall
    /\ Idle

NextTables == call_wrap_tables

SpecTables == InitTables /\ [][NextTables]_vars

(***************************************************************************)
(* Properties of wrap_tables.                                              *)
(***************************************************************************)
\* the number of places of s at which sub stands
Count(s, sub) == Cardinality({ k \in 1..Len(s) : startswith(From(s, k), sub) })

WrapperOpen == "<div class=" \o Quote \o "table-wrapper" \o Quote \o ">"

\* the table elements of s: every one has its own closing tag
Tables(s) == Count(s, "</table>")

\* C29: wrap_tables inserts as many table-wrapper openings as closings, one
\* pair around each table element, also around a table element that carries
\* attributes.
C29_TableWrappersBalanced ==
    Returned("wrap_tables") =>
        /\ Count(ret, WrapperOpen) = Count(ret, "</div>")
        /\ Count(ret, WrapperOpen) = Tables(arg.html_content)

(***************************************************************************)
(* The embedded script of the generated page, run by a browser: the        *)
(* in-page navigation history (navigationHistory, historyIndex) and the    *)
(* session history of the browser (history.pushState, popstate).  Ordinals *)
(* and indexes are 0-based as in the script; the page has the sections     *)
(* 0..MaxSection.                                                          *)
(***************************************************************************)
MaxSection == 2      \* the largest ordinal that has a section
MaxEntries == 4      \* largest number of entries of either history
MaxTraversals == 1   \* largest number of popstate events waiting

\* the rest of the state is that of the generator, which has finished
GeneratorUnchanged ==
    UNCHANGED <<pc, cwd, input_folder, root_exists, disk, markdown_files, i, sections,
                tag_file_map, navigation, warnings, output_written, raised, exit_code,
                arg, ret>>

\* lines 1789-1793: sectionNavEntry
sectionNavEntry(index) == [type |-> "section", sectionIndex |-> index]

\* lines 1204-1257, showSection as declared: currentSection and, after
\* history.pushState (lines 1252-1256), the session history whose entries
\* behind the current one are dropped and whose new entry is the current one
declared_showSection(index, updateHistory, browserNavigation, entries, at) ==
    [currentSection |-> index,
     sessionHistory |-> IF updateHistory /\ ~browserNavigation
                        THEN Append(SubSeq(entries, 1, at + 1), <<index>>)
                        ELSE entries,
     sessionIndex |-> IF updateHistory /\ ~browserNavigation THEN at + 1 ELSE at]

\* a call showSection(index, updateHistory) through the global name: the
\* wrappers of lines 1986-1991 and 2017-2020 take index alone and call the
\* function they wrap with index alone, so updateHistory is its default, true
called_showSection(index, updateHistory, browserNavigation, entries, at) ==
    IF showSection = "showSection"
    THEN declared_showSection(index, updateHistory, browserNavigation, entries, at)
    ELSE declared_showSection(index, TRUE, browserNavigation, entries, at)

\* the state after the call
Shown(result) ==
    /\ currentSection' = result.currentSection
    /\ sessionHistory' = result.sessionHistory
    /\ sessionIndex' = result.sessionIndex

\* room for one more entry of the session history
RoomToPush == sessionIndex + 2 <= MaxEntries

\* lines 1985-1991: the second script of the page wraps showSection
install_highlight_wrapper ==
    /\ pc = "page"
    /\ showSection = "showSection"
    /\ showSection' = "originalShowSection wrapper"
    /\ UNCHANGED <<currentSection, navigationHistory, historyIndex, isBrowserNavigation,
                   sessionHistory, sessionIndex, traversals>>
    /\ GeneratorUnchanged

\* lines 2016-2020: the third script wraps it again
install_task_list_wrapper ==
    /\ pc = "page"
    /\ showSection = "originalShowSection wrapper"
    /\ showSection' = "originalShowSection2 wrapper"
    /\ UNCHANGED <<currentSection, navigationHistory, historyIndex, isBrowserNavigation,
                   sessionHistory, sessionIndex, traversals>>
    /\ GeneratorUnchanged

\* lines 1781-1799, a click on a rewritten link
navigateToSection ==
    /\ pc = "page"
    /\ RoomToPush
    /\ \E index \in 0..MaxSection :
         /\ IF index # currentSection
            THEN /\ Len(navigationHistory) < MaxEntries
                 /\ navigationHistory'
                      = Append(SubSeq(navigationHistory, 1, historyIndex + 1),
                               sectionNavEntry(index))
                 /\ historyIndex' = historyIndex + 1
            ELSE UNCHANGED <<navigationHistory, historyIndex>>
         /\ Shown(called_showSection(index, TRUE, isBrowserNavigation,
                                     sessionHistory, sessionIndex))
    /\ UNCHANGED <<showSection, isBrowserNavigation, traversals>>
    /\ GeneratorUnchanged

\* lines 1824-1831: navigateToHistoryEntry for an entry of type section
navigateToHistoryEntry(historyEntry) ==
    Shown(called_showSection(historyEntry.sectionIndex, FALSE, isBrowserNavigation,
                             sessionHistory, sessionIndex))

\* history.back() and history.forward(): the traversal is queued
traverse(delta) ==
    /\ Len(traversals) < MaxTraversals
    /\ traversals' = Append(traversals, delta)
    /\ UNCHANGED <<currentSection, sessionHistory, sessionIndex>>

\* lines 1801-1810
goBack ==
    /\ pc = "page"
    /\ RoomToPush
    /\ IF historyIndex > 0
       THEN /\ historyIndex' = historyIndex - 1
            /\ navigateToHistoryEntry(navigationHistory[historyIndex])
            /\ UNCHANGED traversals
       ELSE /\ traverse(-1)
            /\ UNCHANGED historyIndex
    /\ UNCHANGED <<showSection, navigationHistory, isBrowserNavigation>>
    /\ GeneratorUnchanged

\* lines 1812-1821
goForward ==
    /\ pc = "page"
    /\ RoomToPush
    /\ IF historyIndex < Len(navigationHistory) - 1
       THEN /\ historyIndex' = historyIndex + 1
            /\ navigateToHistoryEntry(navigationHistory[historyIndex + 2])
            /\ UNCHANGED traversals
       ELSE /\ traverse(1)
            /\ UNCHANGED historyIndex
    /\ UNCHANGED <<showSection, navigationHistory, isBrowserNavigation>>
    /\ GeneratorUnchanged

\* the back and forward buttons of the browser
browser_button ==
    /\ pc = "page"
    /\ \E delta \in {-1, 1} : traverse(delta)
    /\ UNCHANGED <<showSection, navigationHistory, historyIndex, isBrowserNavigation>>
    /\ GeneratorUnchanged

\* the section the popstate handler shows for the state object of the entry
\* traversed to (lines 1879-1894): the entry of the page itself has no state
\* and no hash
section_of_state(state) == IF state = <<>> THEN 0 ELSE state[1]

\* lines 1876-1898: the browser moves to the entry and dispatches popstate;
\* the handler runs with isBrowserNavigation set and clears it at its end.
\* A traversal beyond either end of the session history does nothing.
popstate ==
    /\ pc = "page"
    /\ traversals # <<>>
    /\ traversals' = Tail(traversals)
    /\ IF sessionIndex + Head(traversals) \in 0..(Len(sessionHistory) - 1)
       THEN Shown(called_showSection(
                    section_of_state(sessionHistory[sessionIndex + Head(traversals) + 1]),
                    FALSE, TRUE, sessionHistory, sessionIndex + Head(traversals)))
       ELSE UNCHANGED <<currentSection, sessionHistory, sessionIndex>>
    /\ isBrowserNavigation' = FALSE
    /\ UNCHANGED <<showSection, navigationHistory, historyIndex>>
    /\ GeneratorUnchanged

InitScript ==
    /\ pc = "page"
    /\ arg = NoCall
    /\ ret = NoCall
    /\ Idle

NextScript ==
    \/ install_highlight_wrapper
    \/ install_task_list_wrapper
    \/ navigateToSection
    \/ goBack
    \/ goForward
    \/ browser_button
    \/ popstate

SpecScript == InitScript /\ [][NextScript]_vars

(***************************************************************************)
(* Properties of the in-page navigation history.                           *)
(***************************************************************************)
\* a step that calls showSection with updateHistory = false: goBack and
\* goForward through navigateToHistoryEntry, and the popstate handler
StepsThroughHistory ==
    \/ historyIndex > 0 /\ goBack
    \/ historyIndex < Len(navigationHistory) - 1 /\ goForward
    \/ popstate

\* C30: stepping through the in-page navigation history never adds an entry
\* to the session history of the browser: a showSection call made with
\* updateHistory = false performs no history.pushState, also once the
\* showSection wrappers are installed, and historyIndex stays a valid index
\* of navigationHistory.
C30_HistorySteppingPushesNothing ==
    [][/\ StepsThroughHistory => sessionHistory' = sessionHistory
       /\ historyIndex' \in 0..(Len(navigationHistory') - 1)]_vars
====
